---- MODULE Spec2Model ----
(***************************************************************************)
(* The streaming chat client of auto-chat: the SSE decoder of              *)
(* ChatApiClient.sendMessageStream (src/src/services/chatApi.ts) and the   *)
(* send / cancel / reset state machine of ChatContainer                    *)
(* (src/src/components/ChatContainer.tsx).                                 *)
(*                                                                         *)
(* Text is a sequence of one-character strings, so that splitting a body   *)
(* into read chunks, splitting a buffer into lines and testing a line's    *)
(* prefix are computed as the code computes them.                          *)
(***************************************************************************)
EXTENDS Integers, Sequences, FiniteSets, TLC

(***************************************************************************)
(* Bounds of the model.                                                    *)
(***************************************************************************)
\* sends (calls of handleSendMessage that pass the conversation check)
MaxOps == 2
\* attachments with a file handed to one send
MaxFiles == 2

(***************************************************************************)
(* Text helpers: String.prototype.startsWith / substring / trim / split.   *)
(***************************************************************************)
NL == "\n"

StartsWith(s, p) ==
    /\ Len(s) >= Len(p)
    /\ SubSeq(s, 1, Len(p)) = p

EndsWith(s, p) ==
    /\ Len(s) >= Len(p)
    /\ SubSeq(s, Len(s) - Len(p) + 1, Len(s)) = p

\* s.substring(n)
Substring(s, n) == SubSeq(s, n + 1, Len(s))

IsSpace(c) == c \in {" ", "\t", "\r", "\n"}

RECURSIVE TrimLeft(_)
TrimLeft(s) ==
    IF s # <<>> /\ IsSpace(Head(s)) THEN TrimLeft(Tail(s)) ELSE s

RECURSIVE TrimRight(_)
TrimRight(s) ==
    IF s # <<>> /\ IsSpace(s[Len(s)]) THEN TrimRight(SubSeq(s, 1, Len(s) - 1)) ELSE s

Trim(s) == TrimRight(TrimLeft(s))

\* s.split('\n'): never empty, the last element is the text after the last newline
NewlinePositions(s) == {i \in 1..Len(s) : s[i] = NL}

Split(s) ==
    LET nl == NewlinePositions(s)
        n == Cardinality(nl)
        \* the position of the j-th newline; 0 before the text, Len + 1 after it
        At(j) == IF j = 0 THEN 0
                 ELSE IF j = n + 1 THEN Len(s) + 1
                 ELSE CHOOSE p \in nl : Cardinality({x \in nl : x < p}) = j - 1
    IN [j \in 1..(n + 1) |-> SubSeq(s, At(j - 1) + 1, At(j) - 1)]

(***************************************************************************)
(* The wire vocabulary of the chat stream.                                 *)
(***************************************************************************)
EventMarker == <<"e", "v", "e", "n", "t", ":", " ">>
DataMarker == <<"d", "a", "t", "a", ":", " ">>
TStart == <<"s", "t", "a", "r", "t">>
TData == <<"d", "a", "t", "a">>
TEnd == <<"e", "n", "d">>
TError == <<"e", "r", "r", "o", "r">>

JsonIdOpen == <<"{", "\"", "m", "e", "s", "s", "a", "g", "e", "_", "i", "d", "\"", ":", "\"">>
JsonContentOpen == <<"{", "\"", "c", "o", "n", "t", "e", "n", "t", "\"", ":", "\"">>
JsonErrorOpen == <<"{", "\"", "e", "r", "r", "o", "r", "\"", ":", "\"">>
JsonClose == <<"\"", "}">>
JsonThinkingClose == <<"\"", ",", "\"", "t", "h", "i", "n", "k", "i", "n", "g", "\"", ":", "t", "r", "u", "e", "}">>

(***************************************************************************)
(* JSON.parse on the payloads of the protocol: a flat object with one      *)
(* string member (message_id, content or error), content optionally        *)
(* followed by "thinking":true.  Any other text does not parse.            *)
(***************************************************************************)
NoQuote(s) == \A i \in 1..Len(s) : s[i] # "\""

Between(s, open, close) == SubSeq(s, Len(open) + 1, Len(s) - Len(close))

Wraps(s, open, close) ==
    /\ Len(s) >= Len(open) + Len(close)
    /\ StartsWith(s, open)
    /\ EndsWith(s, close)
    /\ NoQuote(Between(s, open, close))

ParseFailure == [ok |-> FALSE, has |-> {}, message_id |-> <<>>, content |-> <<>>,
                 thinking |-> FALSE, error |-> <<>>]

JsonParse(text) ==
    LET s == Trim(text) IN
    IF Wraps(s, JsonIdOpen, JsonClose)
    THEN [ParseFailure EXCEPT !.ok = TRUE, !.has = {"message_id"},
                              !.message_id = Between(s, JsonIdOpen, JsonClose)]
    ELSE IF Wraps(s, JsonContentOpen, JsonThinkingClose)
    THEN [ParseFailure EXCEPT !.ok = TRUE, !.has = {"content", "thinking"},
                              !.content = Between(s, JsonContentOpen, JsonThinkingClose),
                              !.thinking = TRUE]
    ELSE IF Wraps(s, JsonContentOpen, JsonClose)
    THEN [ParseFailure EXCEPT !.ok = TRUE, !.has = {"content"},
                              !.content = Between(s, JsonContentOpen, JsonClose)]
    ELSE IF Wraps(s, JsonErrorOpen, JsonClose)
    THEN [ParseFailure EXCEPT !.ok = TRUE, !.has = {"error"},
                              !.error = Between(s, JsonErrorOpen, JsonClose)]
    ELSE ParseFailure

(***************************************************************************)
(* Messages of the client, as the code's literals.                         *)
(***************************************************************************)
\* '请求已取消'
MsgCancelled == <<"c", "a", "n", "c", "e", "l", "l", "e", "d">>
\* '解析响应数据失败'
MsgParseFailed == <<"p", "a", "r", "s", "e">>
\* '发送消息失败: <statusText>'
MsgSendFailed == <<"s", "e", "n", "d">>
\* '服务器不支持流式响应'
MsgNotStream == <<"n", "o", "s", "s", "e">>
\* '无法读取响应流'
MsgNoBody == <<"n", "o", "b", "o", "d", "y">>
\* '上传文件失败: <statusText>'
MsgUploadFailed == <<"u", "p", "l", "o", "a", "d">>
\* the message of a TypeError raised by fetch or by reader.read()
MsgNetwork == <<"n", "e", "t">>
\* '会话未初始化'
MsgNoConversation == <<"n", "o", "c", "o", "n", "v">>
\* '创建会话失败: <statusText>'
MsgCreateFailed == <<"c", "r", "e", "a", "t", "e">>

(***************************************************************************)
(* A callback invocation: which callback and its arguments.                *)
(***************************************************************************)
Call(cb, arg, thinking) == [cb |-> cb, arg |-> arg, thinking |-> thinking]

\* handleSSEEvent(type, data, callbacks): the callbacks it invokes, in order
handleSSEEvent(type, data) ==
    LET p == JsonParse(data) IN
    IF type \notin {TStart, TData, TEnd, TError} THEN <<>>
    ELSE IF ~p.ok THEN <<Call("onError", MsgParseFailed, FALSE)>>
    ELSE IF type = TStart THEN <<Call("onStart", p.message_id, FALSE)>>
    ELSE IF type = TData THEN
        \* parsed.content.substring(0, 100) throws when content is missing
        IF "content" \in p.has THEN <<Call("onChunk", p.content, p.thinking)>>
        ELSE <<Call("onError", MsgParseFailed, FALSE)>>
    ELSE IF type = TEnd THEN <<Call("onEnd", p.message_id, FALSE)>>
    ELSE <<Call("onError", p.error, FALSE)>>

\* the messageId sendMessageStream keeps after dispatching an event
IdAfterEvent(messageId, type, data) ==
    LET p == JsonParse(data) IN
    IF type \in {TStart, TEnd} /\ p.ok /\ p.message_id # <<>> THEN p.message_id
    ELSE messageId

\* a decoder that splits the chunk alone and forgets the line it had kept
CompleteLinesWithoutBuffer(buffer, chunk) ==
    LET lines == Split(chunk) IN SubSeq(lines, 1, Len(lines) - 1)

\* buffer += decode(value); lines = buffer.split('\n'); buffer = lines.pop() || '':
\* the complete lines handed to the for loop, and the line kept for the next read
CompleteLines(buffer, chunk) ==
    LET lines == Split(buffer \o chunk) IN SubSeq(lines, 1, Len(lines) - 1)

RetainedLine(buffer, chunk) ==
    LET lines == Split(buffer \o chunk) IN lines[Len(lines)]

\* the for loop over the complete lines of one read; currentEvent and
\* currentData are declared inside the while loop, so every read starts with
\* currentEvent = null (modelled as the empty text, equally falsy) and
\* currentData = ''
RECURSIVE ProcessLines(_, _, _, _, _, _)
ProcessLines(lines, i, currentEvent, currentData, calls, messageId) ==
    IF i > Len(lines) THEN [calls |-> calls, messageId |-> messageId]
    ELSE LET line == lines[i] IN
        IF StartsWith(line, EventMarker)
        THEN ProcessLines(lines, i + 1, Trim(Substring(line, 7)), currentData, calls, messageId)
        ELSE IF StartsWith(line, DataMarker)
        THEN ProcessLines(lines, i + 1, currentEvent, Substring(line, 6), calls, messageId)
        ELSE IF line = <<>>
        THEN IF currentData # <<>>
             THEN LET eventType == IF currentEvent # <<>> THEN currentEvent ELSE TData IN
                  ProcessLines(lines, i + 1, <<>>, <<>>,
                               calls \o handleSSEEvent(eventType, currentData),
                               IdAfterEvent(messageId, eventType, currentData))
             ELSE ProcessLines(lines, i + 1, <<>>, <<>>, calls, messageId)
        ELSE ProcessLines(lines, i + 1, currentEvent, currentData, calls, messageId)

\* one iteration of the read loop on a chunk: buffer += decode(value), split,
\* keep the last (incomplete) line, process the complete ones
ProcessChunk(buffer, messageId, chunk) ==
    LET done == ProcessLines(CompleteLines(buffer, chunk), 1, <<>>, <<>>, <<>>, messageId)
    IN [buffer |-> RetainedLine(buffer, chunk), calls |-> done.calls,
        messageId |-> done.messageId]

(***************************************************************************)
(* Response bodies the server sends for the k-th send.  The server names   *)
(* the assistant message of the k-th send "m<k>".                          *)
(***************************************************************************)
Digits == <<"1", "2", "3", "4", "5", "6", "7", "8", "9">>

ServerMessageId(k) == <<"m", Digits[k]>>

Hi == <<"h", "i">>
Boom == <<"b", "o", "o", "m">>

\* one event on the wire: event line, data line, blank line
WireEvent(type, payload) ==
    EventMarker \o type \o <<NL>> \o DataMarker \o payload \o <<NL, NL>>

StartEvent(k) == WireEvent(TStart, JsonIdOpen \o ServerMessageId(k) \o JsonClose)
DataEvent(text) == WireEvent(TData, JsonContentOpen \o text \o JsonClose)
EndEvent(k) == WireEvent(TEnd, JsonIdOpen \o ServerMessageId(k) \o JsonClose)
ErrorEvent(text) == WireEvent(TError, JsonErrorOpen \o text \o JsonClose)

StreamNames == {"complete", "failing", "truncated"}

\* an id the server gives in a second start event, thinking fragments, a
\* fragment of content, and a payload that is not JSON
OtherMessageId == <<"m", "9">>
ThinkT == <<"t">>
ThinkU == <<"u">>
ContentH == <<"h">>
ContentI == <<"i">>
Malformed == <<"{", "h", "i">>

StartEventWith(id) == WireEvent(TStart, JsonIdOpen \o id \o JsonClose)
ThinkingEvent(text) == WireEvent(TData, JsonContentOpen \o text \o JsonThinkingClose)

\* bodies that exercise the callbacks further
MoreStreamNames == {"restarted", "interleaved", "malformed"}

\* bodies that exercise the dispatch rules and the ends of a stream
EventStreamNames == {"dispatch", "unannounced", "silent", "pending", "unterminated"}

\* the lines of the "dispatch" body after its start event: an event line
\* that no data line follows, a blank line, two data lines with no event line
\* before them, and two blank lines
DispatchLines ==
    EventMarker \o TError \o <<NL, NL>>
        \o DataMarker \o JsonContentOpen \o ContentH \o JsonClose \o <<NL>>
        \o DataMarker \o JsonContentOpen \o ContentI \o JsonClose \o <<NL, NL>>
        \o <<NL>>

\* "complete" is the stream of the specification's example; "failing" carries
\* a server error event; "truncated" closes without an end event; "restarted"
\* carries a second start event with another id; "interleaved" alternates
\* thinking and content fragments; "malformed" carries a data event whose
\* payload does not parse; "dispatch" puts DispatchLines between its start
\* and its end event; "unannounced" has no start event; "silent" closes after
\* its start event; "pending" closes after the two lines of an end event that
\* names another id, before their blank line; "unterminated" closes in the
\* middle of a data line
StreamBody(name, k) ==
    CASE name = "complete" -> StartEvent(k) \o DataEvent(Hi) \o EndEvent(k)
      [] name = "failing" -> StartEvent(k) \o DataEvent(Hi) \o ErrorEvent(Boom)
      [] name = "truncated" -> StartEvent(k) \o DataEvent(Hi)
      [] name = "restarted" ->
            StartEvent(k) \o DataEvent(ContentH) \o StartEventWith(OtherMessageId)
                \o DataEvent(ContentI)
      [] name = "interleaved" ->
            StartEvent(k) \o ThinkingEvent(ThinkT) \o DataEvent(ContentH)
                \o ThinkingEvent(ThinkU) \o DataEvent(ContentI) \o EndEvent(k)
      [] name = "malformed" ->
            StartEvent(k) \o WireEvent(TData, Malformed) \o DataEvent(Hi) \o EndEvent(k)
      [] name = "dispatch" -> StartEvent(k) \o DispatchLines \o EndEvent(k)
      [] name = "unannounced" -> DataEvent(Hi) \o EndEvent(k)
      [] name = "silent" -> StartEvent(k)
      [] name = "pending" ->
            StartEvent(k) \o DataEvent(ContentH) \o EventMarker \o TEnd \o <<NL>>
                \o DataMarker \o JsonIdOpen \o OtherMessageId \o JsonClose \o <<NL>>
      [] name = "unterminated" ->
            StartEvent(k) \o DataEvent(ContentH)
                \o DataMarker \o JsonContentOpen \o ContentI \o JsonClose
      [] OTHER -> <<>>

(***************************************************************************)
(* Values of the component state.                                          *)
(***************************************************************************)
\* string | null
Null == [null |-> TRUE, text |-> <<>>]
Some(t) == [null |-> FALSE, text |-> t]

\* message identifiers: `user-<now>`, `assistant-temp-<now>`, a server id;
\* NoId stands for null, undefined and '' (all falsy)
NoId == [kind |-> "none", n |-> 0, s |-> <<>>]
UserId(k) == [kind |-> "user", n |-> k, s |-> <<>>]
TempAssistantId(k) == [kind |-> "assistant-temp", n |-> k, s |-> <<>>]
IdOf(text) == IF text = <<>> THEN NoId ELSE [kind |-> "server", n |-> 0, s |-> text]

\* what the user typed
UserContent == <<"q">>

\* (the attachments of a message are never read or written by the component)
userMessage(k) ==
    [id |-> UserId(k), role |-> "user", content |-> UserContent, thinkingContent |-> <<>>,
     loading |-> FALSE, statusText |-> "none"]

tempAssistantMessage(k) ==
    [id |-> TempAssistantId(k), role |-> "assistant", content |-> <<>>, thinkingContent |-> <<>>,
     loading |-> TRUE, statusText |-> "connecting"]

\* prev.map(f) and prev.filter(keep)
RECURSIVE FilterOut(_, _)
FilterOut(msgs, id) ==
    IF msgs = <<>> THEN <<>>
    ELSE IF Head(msgs).id # id THEN <<Head(msgs)>> \o FilterOut(Tail(msgs), id)
    ELSE FilterOut(Tail(msgs), id)

(***************************************************************************)
(* The callbacks handleSendMessage passes to sendMessageStream.  st is the *)
(* part of the component they touch: messages, currentMessageIdRef.current *)
(* (ref) and error.                                                        *)
(***************************************************************************)
onStart(st, k, message_id) ==
    [st EXCEPT !.ref = IdOf(message_id),
               !.messages = [i \in 1..Len(st.messages) |->
                   IF st.messages[i].id = TempAssistantId(k)
                   THEN [st.messages[i] EXCEPT !.id = IdOf(message_id), !.statusText = "thinking"]
                   ELSE st.messages[i]]]

\* an onChunk that leaves the message loading while it is only thinking
onChunkThinkingKeepsLoading(st, chunk, thinking) ==
    IF st.ref = NoId THEN st
    ELSE [st EXCEPT !.messages = [i \in 1..Len(st.messages) |->
             IF st.messages[i].id = st.ref
             THEN IF thinking
                  THEN [st.messages[i] EXCEPT !.thinkingContent = @ \o chunk]
                  ELSE [st.messages[i] EXCEPT !.content = @ \o chunk, !.loading = FALSE,
                                              !.statusText = "none"]
             ELSE st.messages[i]]]

onChunk(st, chunk, thinking) ==
    IF st.ref = NoId THEN st
    ELSE [st EXCEPT !.messages = [i \in 1..Len(st.messages) |->
             IF st.messages[i].id = st.ref
             THEN IF thinking
                  THEN [st.messages[i] EXCEPT !.thinkingContent = @ \o chunk, !.loading = FALSE]
                  ELSE [st.messages[i] EXCEPT !.content = @ \o chunk, !.loading = FALSE,
                                              !.statusText = "none"]
             ELSE st.messages[i]]]

onEnd(st, message_id) ==
    IF st.ref = NoId THEN st
    ELSE [st EXCEPT !.messages = [i \in 1..Len(st.messages) |->
             IF st.messages[i].id = st.ref \/ st.messages[i].id = IdOf(message_id)
             THEN [st.messages[i] EXCEPT !.id = IdOf(message_id), !.loading = FALSE,
                                         !.statusText = "none"]
             ELSE st.messages[i]]]

onError(st, text) ==
    [st EXCEPT !.error = Some(text),
               !.messages = IF st.ref = NoId THEN @ ELSE FilterOut(@, st.ref)]

ApplyCall(st, k, c) ==
    CASE c.cb = "onStart" -> onStart(st, k, c.arg)
      [] c.cb = "onChunk" -> onChunk(st, c.arg, c.thinking)
      [] c.cb = "onEnd" -> onEnd(st, c.arg)
      [] c.cb = "onError" -> onError(st, c.arg)
      [] OTHER -> st

\* the callbacks of one read, applied in the order the decoder invokes them
RECURSIVE ApplyCalls(_, _, _)
ApplyCalls(st, k, calls) ==
    IF calls = <<>> THEN st
    ELSE ApplyCalls(ApplyCall(st, k, Head(calls)), k, Tail(calls))

\* a catch block that also rolls back the message left at the end of the list
CatchBlockRollsBackTurn(st, name, text) ==
    LET kept == IF st.ref = NoId THEN st.messages ELSE FilterOut(st.messages, st.ref)
        rolled == IF kept = <<>> THEN kept ELSE SubSeq(kept, 1, Len(kept) - 1)
    IN IF name = "AbortError"
       THEN [st EXCEPT !.messages = rolled]
       ELSE [st EXCEPT !.error = Some(text), !.messages = rolled]

\* the catch block of handleSendMessage
CatchBlock(st, name, text) ==
    IF name = "AbortError"
    THEN [st EXCEPT !.messages = IF st.ref = NoId THEN @ ELSE FilterOut(@, st.ref)]
    ELSE [st EXCEPT !.error = Some(text),
                    !.messages = IF st.ref = NoId THEN @ ELSE FilterOut(@, st.ref)]

(***************************************************************************)
(* State of one ChatContainer, of the requests it has in flight and of the *)
(* transport.                                                              *)
(***************************************************************************)
VARIABLES
    conversationId,        \* useState conversationId: "undefined" or "set" (its value is never inspected)
    messages,              \* useState messages
    isLoading,             \* useState isLoading
    error,                 \* useState error
    isInitializing,        \* useState isInitializing
    abortController,       \* useState abortController: the send that owns it, 0 is null
    currentMessageIdRef,   \* currentMessageIdRef.current
    isInitializedRef,      \* isInitializedRef.current
    aborted,               \* the sends whose AbortController has been aborted
    ops,                   \* one record per call of handleSendMessage past the conversation check
    creating,              \* the pending createConversation call: "none", "init" or "reset"
                           \* ("load": the pending getConversation call)
    chunking,              \* where the transport may end a chunk: "events", "lines" or "bytes"
    poll,                  \* the pollBuildTask call in progress, its locals and what it did
    build,                 \* the executeBuildCommandStream call in progress
    buildingMessageId,     \* ChatInterface useState buildingMessageId: a message, 0 is null
    builtMessageIds,       \* useState builtMessageIds
    writtenMessageIds,     \* useState writtenMessageIds
    buildResults,          \* useState buildResults: per message, the result shown (NoResult: no entry)
    expandedBuildLogs,     \* useState expandedBuildLogs
    devServerRunning,      \* useState devServerRunning
    devServerAbortControllersRef,  \* .current: per message, the run whose controller is registered, 0 is none
    devAborted,            \* the runs whose AbortController has been aborted
    runs                   \* one record per call of handleWriteXml, handleBuildXml,
                           \* startQuarkusDevServer and stopQuarkusDevServer

vars == <<conversationId, messages, isLoading, error, isInitializing, abortController,
          currentMessageIdRef, isInitializedRef, aborted, ops, creating, chunking, poll, build,
          buildingMessageId, builtMessageIds, writtenMessageIds, buildResults,
          expandedBuildLogs, devServerRunning, devServerAbortControllersRef, devAborted, runs>>

\* the variables of the chat component and of its sends
chatVars == <<conversationId, messages, isLoading, error, isInitializing, abortController,
              currentMessageIdRef, isInitializedRef, aborted, ops, creating, chunking>>

\* the variables of ChatInterface and of the operations its buttons start
ifaceVars == <<buildingMessageId, builtMessageIds, writtenMessageIds, buildResults,
               expandedBuildLogs, devServerRunning, devServerAbortControllersRef, devAborted,
               runs>>

\* no pollBuildTask call has been made
NoPoll == [pc |-> "idle"]

\* no executeBuildCommandStream call has been made
NoBuild == [pc |-> "idle"]

\* the assistant messages whose code block is rendered with its buttons
MaxMessages == 2
Messages == 1..MaxMessages

\* buildResults[m] is undefined
NoResult == [present |-> FALSE, success |-> "undefined", phase |-> "none"]

\* ChatInterface after its first render: nothing written, built or running
IfaceIdle ==
    /\ buildingMessageId = 0
    /\ builtMessageIds = {}
    /\ writtenMessageIds = {}
    /\ buildResults = [m \in Messages |-> NoResult]
    /\ expandedBuildLogs = {}
    /\ devServerRunning = {}
    /\ devServerAbortControllersRef = [m \in Messages |-> 0]
    /\ devAborted = {}
    /\ runs = <<>>

\* a send right after handleSendMessage has appended its two messages: where
\* it is suspended (pc) and the locals of handleSendMessage and sendMessageStream
NewOp(nFiles) ==
    [pc |-> "upload", files |-> nFiles, fileIds |-> 0, sent |-> FALSE,
     uploadFailed |-> FALSE, stream |-> "none", pos |-> 0, buffer |-> <<>>,
     messageId |-> <<>>, calls |-> <<>>, readerLocked |-> FALSE, caught |-> "pending",
     dueToAbort |-> FALSE]

\* a send that returns without sendMessageStream's finally having released
\* the reader
SettledHoldingReader(op, name) ==
    [NewOp(0) EXCEPT !.pc = "settled", !.caught = name, !.sent = op.sent,
                     !.uploadFailed = op.uploadFailed, !.fileIds = op.fileIds,
                     !.dueToAbort = op.dueToAbort, !.readerLocked = op.readerLocked]

\* a send whose handleSendMessage has returned: its locals are gone (the
\* finally of sendMessageStream has released the reader); what is
\* kept is how it ended (caught: "returned" or the name of the error caught,
\* dueToAbort: the error was raised for the abort signal), whether an upload
\* failed, the file ids collected and whether sendMessageStream was called
Settled(op, name) ==
    [NewOp(0) EXCEPT !.pc = "settled", !.caught = name, !.sent = op.sent,
                     !.uploadFailed = op.uploadFailed, !.fileIds = op.fileIds,
                     !.dueToAbort = op.dueToAbort]

\* the part of the state the callbacks and the catch block work on
Component == [messages |-> messages, ref |-> currentMessageIdRef, error |-> error]

\* a finally block that leaves the AbortController of the send in the state
SettleKeepsController(st) ==
    /\ messages' = st.messages
    /\ error' = st.error
    /\ isLoading' = FALSE
    /\ UNCHANGED abortController
    /\ currentMessageIdRef' = NoId

\* the finally block of handleSendMessage, after the component became st
Settle(st) ==
    /\ messages' = st.messages
    /\ error' = st.error
    /\ isLoading' = FALSE
    /\ abortController' = 0
    /\ currentMessageIdRef' = NoId

\* handleSendMessage's catch and finally for an error thrown to it while
\* the component is st (sendMessageStream's finally has released the reader)
ThrowFrom(k, op, st, name, text) ==
    /\ Settle(CatchBlock(st, name, text))
    /\ ops' = [ops EXCEPT ![k] = Settled(op, name)]

Throw(k, op, name, text) == ThrowFrom(k, op, Component, name, text)

\* the top of the read loop: if (signal?.aborted) { reader.cancel(); throw new
\* Error('请求已取消') }, else the next reader.read() is awaited
LoopTop(k, op, st) ==
    IF k \in aborted
    THEN ThrowFrom(k, [op EXCEPT !.dueToAbort = TRUE], st, "Error", MsgCancelled)
    ELSE /\ messages' = st.messages
         /\ error' = st.error
         /\ currentMessageIdRef' = st.ref
         /\ ops' = [ops EXCEPT ![k] = [op EXCEPT !.pc = "read"]]
         /\ UNCHANGED <<isLoading, abortController>>

\* const controller = new AbortController(); setAbortController(controller);
\* sendMessageStream(...) up to its await fetch
StartStream(op) ==
    [op EXCEPT !.pc = "fetch", !.sent = TRUE]

Init ==
    /\ conversationId = "undefined"
    /\ messages = <<>>
    /\ isLoading = FALSE
    /\ error = Null
    /\ isInitializing = TRUE
    /\ abortController = 0
    /\ currentMessageIdRef = NoId
    /\ isInitializedRef = FALSE
    /\ aborted = {}
    /\ ops = <<>>
    /\ creating = "none"
    /\ chunking = "events"
    /\ poll = NoPoll
    /\ build = NoBuild
    /\ IfaceIdle

(***************************************************************************)
(* Session initialisation and reset.                                       *)
(***************************************************************************)
\* the mount effect (App renders ChatContainer without a conversationId prop)
MountEffect ==
    /\ IF isInitializedRef
       THEN UNCHANGED <<isInitializedRef, creating, isInitializing>>
       ELSE /\ isInitializedRef' = TRUE
            /\ isInitializing' = TRUE
            /\ creating' = "init"
    /\ UNCHANGED <<conversationId, messages, isLoading, error, abortController,
                   currentMessageIdRef, aborted, ops, chunking, poll, build, ifaceVars>>

\* createConversation settles, for initConversation or for handleReset
CreateDone(ok) ==
    /\ creating \in {"init", "reset"}
    /\ IF ok
       THEN /\ conversationId' = "set"
            /\ error' = error
       ELSE /\ error' = Some(MsgCreateFailed)
            /\ UNCHANGED conversationId
    /\ isInitializing' = FALSE
    /\ creating' = "none"
    /\ UNCHANGED <<messages, isLoading, abortController, currentMessageIdRef,
                   isInitializedRef, aborted, ops, chunking, poll, build, ifaceVars>>

\* the reset button, rendered once initialised and disabled while loading
handleReset ==
    /\ ~isInitializing
    /\ ~isLoading
    /\ messages' = <<>>
    /\ error' = Null
    /\ isInitializing' = TRUE
    /\ creating' = "reset"
    /\ UNCHANGED <<conversationId, isLoading, abortController, currentMessageIdRef,
                   isInitializedRef, aborted, ops, chunking, poll, build, ifaceVars>>

(***************************************************************************)
(* handleSendMessage, step by step.                                        *)
(***************************************************************************)
\* ChatInterface.handleSend -> handleSendMessage, up to its first await
handleSendMessage(nFiles) ==
    /\ ~isInitializing
    /\ ~isLoading                       \* ChatInterface is disabled while loading
    /\ IF conversationId = "undefined"
       THEN /\ error' = Some(MsgNoConversation)
            /\ UNCHANGED <<messages, isLoading, abortController, currentMessageIdRef, ops>>
       ELSE /\ Len(ops) < MaxOps
            /\ LET k == Len(ops) + 1
                   fresh == NewOp(nFiles)
               IN /\ messages' = messages \o <<userMessage(k), tempAssistantMessage(k)>>
                  /\ currentMessageIdRef' = TempAssistantId(k)
                  /\ isLoading' = TRUE
                  /\ error' = Null
                  /\ IF nFiles > 0
                     THEN /\ ops' = Append(ops, fresh)
                          /\ UNCHANGED abortController
                     ELSE /\ ops' = Append(ops, StartStream(fresh))
                          /\ abortController' = k
    /\ UNCHANGED <<conversationId, isInitializing, isInitializedRef, aborted, creating,
                   chunking, poll, build, ifaceVars>>

\* an upload loop that skips a file whose upload failed and goes on
UploadDoneSkipsFailure(k, ok) ==
    /\ k \in 1..Len(ops)
    /\ ops[k].pc = "upload"
    /\ LET uploaded == IF ok
                       THEN [ops[k] EXCEPT !.files = @ - 1, !.fileIds = @ + 1]
                       ELSE [ops[k] EXCEPT !.files = @ - 1, !.uploadFailed = TRUE]
       IN /\ IF uploaded.files = 0
             THEN /\ ops' = [ops EXCEPT ![k] = StartStream(uploaded)]
                  /\ abortController' = k
             ELSE /\ ops' = [ops EXCEPT ![k] = uploaded]
                  /\ UNCHANGED abortController
          /\ UNCHANGED <<messages, error, isLoading, currentMessageIdRef>>
    /\ UNCHANGED <<conversationId, isInitializing, isInitializedRef, aborted, creating,
                   chunking, poll, build, ifaceVars>>

\* one chatApi.uploadFile settles
UploadDone(k, ok) ==
    /\ k \in 1..Len(ops)
    /\ ops[k].pc = "upload"
    /\ IF ok
       THEN LET uploaded == [ops[k] EXCEPT !.files = @ - 1, !.fileIds = @ + 1] IN
            /\ IF uploaded.files = 0
               THEN /\ ops' = [ops EXCEPT ![k] = StartStream(uploaded)]
                    /\ abortController' = k
               ELSE /\ ops' = [ops EXCEPT ![k] = uploaded]
                    /\ UNCHANGED abortController
            /\ UNCHANGED <<messages, error, isLoading, currentMessageIdRef>>
       ELSE Throw(k, [ops[k] EXCEPT !.uploadFailed = TRUE], "Error", MsgUploadFailed)
    /\ UNCHANGED <<conversationId, isInitializing, isInitializedRef, aborted, creating,
                   chunking, poll, build, ifaceVars>>

\* the ends the next chunk of a body may have, from position pos: after any
\* byte, after any line, or after any event (a server that flushes per event);
\* what the server sent last before it closed arrives as the last chunk
ChunkEnds(body, pos) ==
    CASE chunking = "bytes" -> (pos + 1)..Len(body)
      [] chunking = "lines" ->
            {q \in (pos + 1)..Len(body) : body[q] = NL \/ q = Len(body)}
      [] OTHER ->
            {q \in (pos + 1)..Len(body) : \/ q = Len(body)
                                          \/ q > pos + 1 /\ body[q] = NL /\ body[q - 1] = NL}

FetchOutcomes == {"network", "notok", "notsse", "nobody"}

\* a sendMessageStream that acquires the reader and enters the read loop
\* before it looks at the content type
FetchFailsAfterReader(k, outcome) ==
    /\ k \in 1..Len(ops)
    /\ ops[k].pc = "fetch"
    /\ outcome \in FetchOutcomes \cup {"abort"}
    /\ outcome = "abort" => k \in aborted
    /\ CASE outcome = "abort" ->
                Throw(k, [ops[k] EXCEPT !.dueToAbort = TRUE], "AbortError", MsgCancelled)
         [] outcome = "network" -> Throw(k, ops[k], "Error", MsgNetwork)
         [] outcome = "notok" -> Throw(k, ops[k], "Error", MsgSendFailed)
         [] outcome = "notsse" -> LoopTop(k, [ops[k] EXCEPT !.readerLocked = TRUE], Component)
         [] outcome = "nobody" -> Throw(k, ops[k], "Error", MsgNoBody)
    /\ UNCHANGED <<conversationId, isInitializing, isInitializedRef, aborted, creating,
                   chunking, poll, build, ifaceVars>>

\* await fetch(...) rejects, or resolves with a response that is refused
FetchFails(k, outcome) ==
    /\ k \in 1..Len(ops)
    /\ ops[k].pc = "fetch"
    /\ outcome \in FetchOutcomes \cup {"abort"}
    /\ outcome = "abort" => k \in aborted
    /\ CASE outcome = "abort" ->
                Throw(k, [ops[k] EXCEPT !.dueToAbort = TRUE], "AbortError", MsgCancelled)
         [] outcome = "network" -> Throw(k, ops[k], "Error", MsgNetwork)
         [] outcome = "notok" -> Throw(k, ops[k], "Error", MsgSendFailed)
         [] outcome = "notsse" -> Throw(k, ops[k], "Error", MsgNotStream)
         [] outcome = "nobody" -> Throw(k, ops[k], "Error", MsgNoBody)
    /\ UNCHANGED <<conversationId, isInitializing, isInitializedRef, aborted, creating,
                   chunking, poll, build, ifaceVars>>

\* await fetch(...) resolves with an event stream; the reader is acquired and
\* the read loop is entered
FetchStreams(k, name) ==
    /\ k \in 1..Len(ops)
    /\ ops[k].pc = "fetch"
    /\ name \in StreamNames
    /\ LoopTop(k, [ops[k] EXCEPT !.stream = name, !.readerLocked = TRUE], Component)
    /\ UNCHANGED <<conversationId, isInitializing, isInitializedRef, aborted, creating,
                   chunking, poll, build, ifaceVars>>

\* await reader.read() resolves with the bytes up to some position q: one
\* iteration of the read loop, then the check at the top of the next one
ReadChunk(k) ==
    /\ k \in 1..Len(ops)
    /\ ops[k].pc = "read"
    /\ LET body == StreamBody(ops[k].stream, k) IN
       \E q \in ChunkEnds(body, ops[k].pos) :
          LET r == ProcessChunk(ops[k].buffer, ops[k].messageId,
                                SubSeq(body, ops[k].pos + 1, q))
          IN LoopTop(k,
                     [ops[k] EXCEPT !.pos = q, !.buffer = r.buffer,
                                    !.messageId = r.messageId, !.calls = @ \o r.calls],
                     ApplyCalls(Component, k, r.calls))
    /\ UNCHANGED <<conversationId, isInitializing, isInitializedRef, aborted, creating,
                   chunking, poll, build, ifaceVars>>

\* a sendMessageStream that, on done, dispatches what is left in its buffer
\* as if a blank line had followed it
ReadEndFlushesPending(k) ==
    /\ k \in 1..Len(ops)
    /\ ops[k].pc = "read"
    /\ ops[k].pos = Len(StreamBody(ops[k].stream, k))
    /\ Settle(ApplyCalls(Component, k,
                         ProcessChunk(ops[k].buffer, ops[k].messageId, <<NL, NL>>).calls))
    /\ ops' = [ops EXCEPT ![k] = Settled(@, "returned")]
    /\ UNCHANGED <<conversationId, isInitializing, isInitializedRef, aborted, creating,
                   chunking, poll, build, ifaceVars>>

\* await reader.read() resolves with done: sendMessageStream returns
ReadEnd(k) ==
    /\ k \in 1..Len(ops)
    /\ ops[k].pc = "read"
    /\ ops[k].pos = Len(StreamBody(ops[k].stream, k))
    /\ Settle(Component)
    /\ ops' = [ops EXCEPT ![k] = Settled(@, "returned")]
    /\ UNCHANGED <<conversationId, isInitializing, isInitializedRef, aborted, creating,
                   chunking, poll, build, ifaceVars>>

\* await reader.read() rejects with a transport error
ReadFails(k) ==
    /\ k \in 1..Len(ops)
    /\ ops[k].pc = "read"
    /\ Throw(k, ops[k], "Error", MsgNetwork)
    /\ UNCHANGED <<conversationId, isInitializing, isInitializedRef, aborted, creating,
                   chunking, poll, build, ifaceVars>>

\* await reader.read() rejects with an AbortError: the catch of
\* sendMessageStream calls onError('请求已取消') and rethrows
ReadAborts(k) ==
    /\ k \in 1..Len(ops)
    /\ ops[k].pc = "read"
    /\ k \in aborted
    /\ ThrowFrom(k, [ops[k] EXCEPT !.calls = Append(@, Call("onError", MsgCancelled, FALSE)),
                                   !.dueToAbort = TRUE],
                 onError(Component, MsgCancelled), "AbortError", MsgCancelled)
    /\ UNCHANGED <<conversationId, isInitializing, isInitializedRef, aborted, creating,
                   chunking, poll, build, ifaceVars>>

\* the stop button, rendered while isLoading && abortController
handleCancel ==
    /\ ~isInitializing
    /\ isLoading
    /\ abortController # 0
    /\ aborted' = aborted \cup {abortController}
    /\ abortController' = 0
    /\ isLoading' = FALSE
    /\ UNCHANGED <<conversationId, messages, error, isInitializing, currentMessageIdRef,
                   isInitializedRef, ops, creating, chunking, poll, build, ifaceVars>>

Next ==
    \/ MountEffect
    \/ \E ok \in BOOLEAN : CreateDone(ok)
    \/ handleReset
    \/ \E nFiles \in 0..MaxFiles : handleSendMessage(nFiles)
    \/ \E k \in 1..MaxOps, ok \in BOOLEAN : UploadDone(k, ok)
    \/ \E k \in 1..MaxOps, outcome \in FetchOutcomes \cup {"abort"} : FetchFails(k, outcome)
    \/ \E k \in 1..MaxOps, name \in StreamNames : FetchStreams(k, name)
    \/ \E k \in 1..MaxOps : ReadChunk(k)
    \/ \E k \in 1..MaxOps : ReadEnd(k)
    \/ \E k \in 1..MaxOps : ReadFails(k)
    \/ \E k \in 1..MaxOps : ReadAborts(k)
    \/ handleCancel

Spec == Init /\ [][Next]_vars

(***************************************************************************)
(* The decoder alone: one send whose reader has just been acquired, on a   *)
(* body that the transport may fragment after any byte.                    *)
(***************************************************************************)
InitDecoder ==
    /\ conversationId = "set"
    /\ messages = <<userMessage(1), tempAssistantMessage(1)>>
    /\ isLoading = TRUE
    /\ error = Null
    /\ isInitializing = FALSE
    /\ abortController = 1
    /\ currentMessageIdRef = TempAssistantId(1)
    /\ isInitializedRef = TRUE
    /\ aborted = {}
    /\ \E name \in StreamNames :
          ops = <<[StartStream(NewOp(0)) EXCEPT !.pc = "read", !.stream = name,
                                                !.readerLocked = TRUE]>>
    /\ creating = "none"
    /\ chunking = "bytes"
    /\ poll = NoPoll
    /\ build = NoBuild
    /\ IfaceIdle

NextDecoder ==
    \/ ReadChunk(1)
    \/ ReadEnd(1)

SpecDecoder == InitDecoder /\ [][NextDecoder]_vars

(***************************************************************************)
(* Vocabulary of the properties.                                           *)
(***************************************************************************)
Ids(msgs) == {msgs[i].id : i \in 1..Len(msgs)}

\* the assistant messages of the k-th turn: its placeholder, or the message
\* the server named for it
AssistantOfTurn(msgs, k) ==
    {i \in 1..Len(msgs) : /\ msgs[i].role = "assistant"
                          /\ msgs[i].id \in {TempAssistantId(k), IdOf(ServerMessageId(k))}}

InFlight(k) == k \in 1..Len(ops) /\ ops[k].pc # "settled"

\* this step is the one in which the k-th handleSendMessage returns
Settles(k) == InFlight(k) /\ ops'[k].pc = "settled"

\* the callbacks sendMessageStream invokes when the whole body arrives in one chunk
WholeBodyCalls(name, k) == ProcessChunk(<<>>, <<>>, StreamBody(name, k)).calls

(***************************************************************************)
(* C1 - chunk-boundary invariance: when every byte of the body has been    *)
(* read, the callbacks invoked so far are, in order and with the same      *)
(* arguments, those invoked when the body arrives as one chunk.            *)
(* Checked under SpecDecoder.                                              *)
(***************************************************************************)
C1_ChunkBoundaryInvariance ==
    \A k \in 1..Len(ops) :
        (ops[k].pc = "read" /\ ops[k].pos = Len(StreamBody(ops[k].stream, k)))
            => ops[k].calls = WholeBodyCalls(ops[k].stream, k)

(***************************************************************************)
(* C2 - stale-write guard: a step of a send j that has been superseded by  *)
(* a newer send k still in flight changes nothing that belongs to k: not   *)
(* k's assistant message, not the error state, not the current message id, *)
(* the loading flag or the AbortController.                                *)
(***************************************************************************)
C2_StaleWriteGuard ==
    [][\A j \in 1..Len(ops), k \in 1..Len(ops) :
          (j < k /\ ops'[j] # ops[j] /\ InFlight(k) /\ ops'[k] = ops[k])
              => /\ currentMessageIdRef' = currentMessageIdRef
                 /\ isLoading' = isLoading
                 /\ abortController' = abortController
                 /\ error' = error
                 /\ \A i \in AssistantOfTurn(messages, k) :
                        \E n \in 1..Len(messages') : messages'[n] = messages[i]]_vars

(***************************************************************************)
(* C3 - cancel leaves no assistant message: when a send whose              *)
(* AbortController was aborted by handleCancel settles, the list holds no  *)
(* assistant message of its turn, and the step does not remove the turn's  *)
(* user message.                                                           *)
(***************************************************************************)
C3_CancelRemovesAssistantTurn ==
    [][\A k \in 1..Len(ops) :
          (Settles(k) /\ k \in aborted)
              => /\ AssistantOfTurn(messages', k) = {}
                 /\ UserId(k) \in Ids(messages) => UserId(k) \in Ids(messages')]_vars

(***************************************************************************)
(* C4 - single active operation: at most one send is between entering      *)
(* handleSendMessage and the end of its finally block.                     *)
(***************************************************************************)
C4_AtMostOneSendInFlight ==
    Cardinality({k \in 1..Len(ops) : InFlight(k)}) <= 1

\* the assistant message of the k-th turn after onStart(m), onChunk("hi"), onEnd(m)
FinalAssistantMessage(k) ==
    [id |-> IdOf(ServerMessageId(k)), role |-> "assistant", content |-> Hi,
     thinkingContent |-> <<>>, loading |-> FALSE, statusText |-> "none"]

(***************************************************************************)
(* C5 - the example stream: when a send that was not cancelled returns     *)
(* normally after reading the whole body start{m}, data{"hi"}, end{m}, the *)
(* list holds exactly one assistant message of the turn: id m, content     *)
(* "hi", not loading.                                                      *)
(***************************************************************************)
C5_ExampleStreamResult ==
    [][\A k \in 1..Len(ops) :
          (/\ Settles(k)
           /\ k \notin aborted
           /\ ops'[k].caught = "returned"
           /\ ops[k].stream = "complete")
              => /\ Cardinality(AssistantOfTurn(messages', k)) = 1
                 /\ \A i \in AssistantOfTurn(messages', k) :
                        messages'[i] = FinalAssistantMessage(k)]_vars

(***************************************************************************)
(* C6 - upload failure stops the send: a send one of whose uploads failed  *)
(* has settled with the upload's error caught, sendMessageStream was never *)
(* called for it, and the step in which the upload fails sets the error    *)
(* state to the upload's error.                                            *)
(***************************************************************************)
C6_UploadFailureNeverSubmits ==
    [][\A k \in 1..Len(ops') :
          ops'[k].uploadFailed
              => /\ ~ops'[k].sent
                 /\ ops'[k].pc = "settled"
                 /\ ops'[k].caught = "Error"
                 /\ ~ops[k].uploadFailed => error' = Some(MsgUploadFailed)]_vars

\* the second of two uploads has failed: one file id was collected, nothing was sent
C6_SecondUploadFailed ==
    \E k \in 1..Len(ops) :
        /\ ops[k].pc = "settled"
        /\ ops[k].uploadFailed
        /\ ops[k].fileIds = 1
        /\ ~ops[k].sent
        /\ error = Some(MsgUploadFailed)

\* every byte of a body that carries a server error event has been read
ServerErrorDelivered(k) ==
    /\ ops[k].stream = "failing"
    /\ ops[k].pos = Len(StreamBody("failing", k))

(***************************************************************************)
(* C7 - failures roll the turn back: when a send settles after a failure   *)
(* (an error thrown to handleSendMessage that was not raised for the abort *)
(* signal, or a server error event delivered by the stream), the list      *)
(* holds no assistant message of its turn and the error state is not null. *)
(***************************************************************************)
C7_FailureRemovesPlaceholder ==
    [][\A k \in 1..Len(ops) :
          (/\ Settles(k)
           /\ k \notin aborted
           /\ \/ ops'[k].caught = "Error"
              \/ ServerErrorDelivered(k))
              => /\ AssistantOfTurn(messages', k) = {}
                 /\ error' # Null]_vars

(***************************************************************************)
(* C8 - the user message is kept: no step other than handleReset removes   *)
(* or modifies a user message of the list.                                 *)
(***************************************************************************)
C8_UserMessageKept ==
    [][\A i \in 1..Len(messages) :
          messages[i].role = "user"
              => \/ \E n \in 1..Len(messages') : messages'[n] = messages[i]
                 \/ creating = "none" /\ creating' = "reset"]_vars

\* a send has settled on an error or a cancellation, its assistant message
\* is gone and its user message is still in the list
C8_UserMessageSurvivesFailure ==
    \E k \in 1..Len(ops) :
        /\ ops[k].pc = "settled"
        /\ ops[k].caught # "returned"
        /\ AssistantOfTurn(messages, k) = {}
        /\ \E i \in 1..Len(messages) : messages[i] = userMessage(k)

(***************************************************************************)
(* C9 - cancellation is silent: when a send settles on the error raised    *)
(* for its abort signal, the error state is null.                          *)
(***************************************************************************)
C9_CancelledSendShowsNoError ==
    [][\A k \in 1..Len(ops) :
          (Settles(k) /\ ops'[k].dueToAbort) => error' = Null]_vars

(***************************************************************************)
(* C10 - cancellation is distinguishable: every send that settled on an    *)
(* error raised for its abort signal caught an AbortError, the error the   *)
(* catch block of handleSendMessage recognises as a cancellation.          *)
(***************************************************************************)
C10_AbortIsRecognisedAsCancellation ==
    \A k \in 1..Len(ops) :
        (ops[k].pc = "settled" /\ ops[k].dueToAbort) => ops[k].caught = "AbortError"

(***************************************************************************)
(* ChatApiClient.pollBuildTask (src/src/services/chatApi.ts): the poll     *)
(* loop over getBuildTask, one step per await.                             *)
(***************************************************************************)
\* the largest maxAttempts a caller passes
MaxAttempts == 3

\* '构建任务超时'
MsgBuildTimeout == <<"t", "i", "m", "e", "o", "u", "t">>
\* '构建任务失败'
MsgBuildFailed == <<"f", "a", "i", "l", "e", "d">>
\* '查询构建任务失败: <statusText>'
MsgQueryFailed == <<"q", "u", "e", "r", "y">>

\* what getBuildTask resolves with: the task's status and its error member
\* (the empty text stands for a missing or empty error, both falsy)
TaskStatuses == {"pending", "processing", "success", "failed"}

TaskSnapshots ==
    {[status |-> st, error |-> <<>>] : st \in TaskStatuses}
        \cup {[status |-> "failed", error |-> Boom]}

\* the errors getBuildTask rejects with: a response that is not ok, or a
\* rejection of fetch or of response.json()
GetBuildTaskErrors == {MsgQueryFailed, MsgNetwork}

\* pollBuildTask(taskId, {interval, maxAttempts, onProgress}) up to its
\* first await: the loop variable i, the getBuildTask calls issued (fetches),
\* the tasks they resolved with (fetched), the timers started (waits), the
\* onProgress calls (progress), the outcome (result or error), the error a
\* getBuildTask call rejected with (thrown), and whether the caller has given
\* up waiting (cancelRequested)
NewPoll(maxAttempts) ==
    [pc |-> IF 0 < maxAttempts THEN "fetch" ELSE "rejected",
     maxAttempts |-> maxAttempts, i |-> 0,
     fetches |-> IF 0 < maxAttempts THEN 1 ELSE 0,
     fetched |-> <<>>, waits |-> 0, progress |-> <<>>,
     result |-> [status |-> "none", error |-> <<>>],
     error |-> IF 0 < maxAttempts THEN Null ELSE Some(MsgBuildTimeout),
     thrown |-> Null, cancelRequested |-> FALSE]

pollBuildTask(maxAttempts) ==
    /\ poll.pc = "idle"
    /\ poll' = NewPoll(maxAttempts)
    /\ UNCHANGED <<chatVars, build, ifaceVars>>

\* a poll loop that goes on polling after a failed snapshot
GetBuildTaskReturnsIgnoringFailed(task) ==
    /\ poll.pc = "fetch"
    /\ LET seen == [poll EXCEPT !.fetched = Append(@, task),
                                !.progress = Append(@, task)]
       IN poll' = IF task.status = "success"
                  THEN [seen EXCEPT !.pc = "resolved", !.result = task]
                  ELSE [seen EXCEPT !.pc = "sleep", !.waits = @ + 1]
    /\ UNCHANGED <<chatVars, build, ifaceVars>>

\* a poll loop that reports progress only after the two status tests
GetBuildTaskReturnsProgressLast(task) ==
    /\ poll.pc = "fetch"
    /\ LET seen == [poll EXCEPT !.fetched = Append(@, task)]
       IN poll' = CASE task.status = "success" ->
                        [seen EXCEPT !.pc = "resolved", !.result = task]
                    [] task.status = "failed" ->
                        [seen EXCEPT !.pc = "rejected",
                                     !.error = Some(IF task.error # <<>> THEN task.error
                                                    ELSE MsgBuildFailed)]
                    [] OTHER ->
                        [seen EXCEPT !.pc = "sleep", !.waits = @ + 1,
                                     !.progress = Append(@, task)]
    /\ UNCHANGED <<chatVars, build, ifaceVars>>

\* await this.getBuildTask(taskId) resolves with a task: onProgress, then
\* the two status tests, then the timer is started
GetBuildTaskReturns(task) ==
    /\ poll.pc = "fetch"
    /\ LET seen == [poll EXCEPT !.fetched = Append(@, task),
                                !.progress = Append(@, task)]
       IN poll' = CASE task.status = "success" ->
                        [seen EXCEPT !.pc = "resolved", !.result = task]
                    [] task.status = "failed" ->
                        [seen EXCEPT !.pc = "rejected",
                                     !.error = Some(IF task.error # <<>> THEN task.error
                                                    ELSE MsgBuildFailed)]
                    [] OTHER ->
                        [seen EXCEPT !.pc = "sleep", !.waits = @ + 1]
    /\ UNCHANGED <<chatVars, build, ifaceVars>>

\* a poll loop that swallows a rejected getBuildTask and tries again
GetBuildTaskThrowsRetries(err) ==
    /\ poll.pc = "fetch"
    /\ poll' = [poll EXCEPT !.pc = "sleep", !.waits = @ + 1, !.thrown = Some(err)]
    /\ UNCHANGED <<chatVars, build, ifaceVars>>

\* await this.getBuildTask(taskId) rejects: nothing in pollBuildTask catches it
GetBuildTaskThrows(err) ==
    /\ poll.pc = "fetch"
    /\ poll' = [poll EXCEPT !.pc = "rejected", !.error = Some(err), !.thrown = Some(err)]
    /\ UNCHANGED <<chatVars, build, ifaceVars>>

\* a loop test that is off by one: i <= maxAttempts
TimerFiresOffByOne ==
    /\ poll.pc = "sleep"
    /\ poll' = IF poll.i + 1 <= poll.maxAttempts
               THEN [poll EXCEPT !.i = @ + 1, !.pc = "fetch", !.fetches = @ + 1]
               ELSE [poll EXCEPT !.i = @ + 1, !.pc = "rejected",
                                 !.error = Some(MsgBuildTimeout)]
    /\ UNCHANGED <<chatVars, build, ifaceVars>>

\* the timer of setTimeout(resolve, interval) fires: i++ and the loop test
TimerFires ==
    /\ poll.pc = "sleep"
    /\ poll' = IF poll.i + 1 < poll.maxAttempts
               THEN [poll EXCEPT !.i = @ + 1, !.pc = "fetch", !.fetches = @ + 1]
               ELSE [poll EXCEPT !.i = @ + 1, !.pc = "rejected",
                                 !.error = Some(MsgBuildTimeout)]
    /\ UNCHANGED <<chatVars, build, ifaceVars>>

\* the caller stops waiting for the build; pollBuildTask takes no signal, so
\* nothing of the poll loop can observe it
CallerCancels ==
    /\ poll.pc \in {"fetch", "sleep"}
    /\ ~poll.cancelRequested
    /\ poll' = [poll EXCEPT !.cancelRequested = TRUE]
    /\ UNCHANGED <<chatVars, build, ifaceVars>>

InitPoller ==
    /\ conversationId = "set"
    /\ messages = <<>>
    /\ isLoading = FALSE
    /\ error = Null
    /\ isInitializing = FALSE
    /\ abortController = 0
    /\ currentMessageIdRef = NoId
    /\ isInitializedRef = TRUE
    /\ aborted = {}
    /\ ops = <<>>
    /\ creating = "none"
    /\ chunking = "events"
    /\ poll = NoPoll
    /\ build = NoBuild
    /\ IfaceIdle

NextPoller ==
    \/ \E maxAttempts \in 0..MaxAttempts : pollBuildTask(maxAttempts)
    \/ \E task \in TaskSnapshots : GetBuildTaskReturns(task)
    \/ \E err \in GetBuildTaskErrors : GetBuildTaskThrows(err)
    \/ TimerFires
    \/ CallerCancels

SpecPoller == InitPoller /\ [][NextPoller]_vars

\* the snapshots that end the poll loop
Terminal(task) == task.status \in {"success", "failed"}

Called == poll.pc # "idle"

Finished == poll.pc \in {"resolved", "rejected"}

(***************************************************************************)
(* C11 - bounded polling: pollBuildTask never issues more than maxAttempts *)
(* getBuildTask calls; a poll that ends on the timeout error has issued    *)
(* exactly maxAttempts of them; and a poll that has ended after fetching   *)
(* only snapshots that are neither success nor failed ended on the timeout *)
(* error after exactly maxAttempts calls.                                  *)
(***************************************************************************)
C11_PollStopsAfterMaxAttempts ==
    Called =>
        /\ poll.fetches <= poll.maxAttempts
        /\ (poll.pc = "rejected" /\ poll.error = Some(MsgBuildTimeout))
               => poll.fetches = poll.maxAttempts
        /\ (/\ Finished
            /\ Len(poll.fetched) = poll.fetches
            /\ \A j \in 1..Len(poll.fetched) : ~Terminal(poll.fetched[j]))
               => /\ poll.error = Some(MsgBuildTimeout)
                  /\ poll.fetches = poll.maxAttempts

\* the specification's example: maxAttempts = 3, three snapshots that are all
\* processing, then the timeout
C11_TimedOutAfterThreeFetches ==
    /\ poll.pc = "rejected"
    /\ poll.maxAttempts = 3
    /\ poll.fetches = 3
    /\ poll.fetched = [j \in 1..3 |-> [status |-> "processing", error |-> <<>>]]
    /\ poll.error = Some(MsgBuildTimeout)

(***************************************************************************)
(* C12 - a failed task ends the poll: once a getBuildTask call has         *)
(* resolved with status failed, the poll is rejected with the task's error *)
(* (the default failure message when the task has none), and no fetch and  *)
(* no wait has been started after that snapshot.                           *)
(***************************************************************************)
C12_FailedTaskRejectsAtOnce ==
    \A k \in 1..(IF Called THEN Len(poll.fetched) ELSE 0) :
        poll.fetched[k].status = "failed"
            => /\ poll.pc = "rejected"
               /\ poll.error = Some(IF poll.fetched[k].error # <<>>
                                    THEN poll.fetched[k].error ELSE MsgBuildFailed)
               /\ k = Len(poll.fetched)
               /\ poll.fetches = k
               /\ poll.waits = k - 1

\* the specification's example: failed on attempt 2 of 3
C12_FailedOnSecondAttempt ==
    /\ poll.pc = "rejected"
    /\ poll.maxAttempts = 3
    /\ Len(poll.fetched) = 2
    /\ poll.fetched[2].status = "failed"
    /\ poll.fetches = 2

(***************************************************************************)
(* C13 - a fetch failure is not retried: once a getBuildTask call has      *)
(* rejected, the poll is rejected with that same error, which is neither   *)
(* the timeout error nor a task-failed error, and no getBuildTask call has *)
(* been issued after the one that rejected.                                *)
(***************************************************************************)
C13_FetchFailurePropagates ==
    (Called /\ poll.thrown # Null)
        => /\ poll.pc = "rejected"
           /\ poll.error = poll.thrown
           /\ poll.error \notin {Some(MsgBuildTimeout), Some(MsgBuildFailed), Some(Boom)}
           /\ poll.fetches = Len(poll.fetched) + 1

\* the second getBuildTask call rejected after a first snapshot
C13_SecondFetchThrew ==
    /\ Called
    /\ poll.thrown = Some(MsgQueryFailed)
    /\ Len(poll.fetched) = 1
    /\ poll.fetches = 2

(***************************************************************************)
(* C14 - progress on every fetch: the onProgress calls are, in order, the  *)
(* snapshots the getBuildTask calls resolved with, the terminal snapshot   *)
(* included, and a resolved poll resolved with the last of them, whose     *)
(* status is success.                                                      *)
(***************************************************************************)
C14_ProgressOncePerFetch ==
    Called =>
        /\ poll.progress = poll.fetched
        /\ poll.pc = "resolved"
               => /\ poll.fetched # <<>>
                  /\ poll.result = poll.fetched[Len(poll.fetched)]
                  /\ poll.result.status = "success"

\* a poll that resolved on its second snapshot after reporting both
C14_ResolvedOnSecondFetch ==
    /\ poll.pc = "resolved"
    /\ Len(poll.progress) = 2
    /\ poll.progress[1].status = "pending"
    /\ poll.progress[2].status = "success"

(***************************************************************************)
(* C15 - the wait is cancellable: once the caller has cancelled while the  *)
(* poll is sleeping between two attempts, no further getBuildTask call is  *)
(* issued.                                                                 *)
(***************************************************************************)
C15_CancelStopsPolling ==
    [][(poll.pc = "sleep" /\ poll.cancelRequested)
          => (poll'.pc # "fetch" /\ poll'.fetches = poll.fetches)]_vars

(***************************************************************************)
(* ChatApiClient.executeBuildCommandStream (src/src/services/chatApi.ts):  *)
(* the decoder of the build log stream, one step per await.                *)
(***************************************************************************)
\* {"type":"log","line":"
JsonLogOpen == <<"{", "\"", "t", "y", "p", "e", "\"", ":", "\"", "l", "o", "g", "\"", ",", "\"", "l", "i", "n", "e", "\"", ":", "\"">>
\* {"type":"complete","success":true,"message":"
JsonCompleteTrueOpen ==
    <<"{", "\"", "t", "y", "p", "e", "\"", ":", "\"", "c", "o", "m", "p", "l", "e", "t", "e", "\"", ",", "\"", "s", "u", "c", "c", "e", "s", "s", "\"", ":", "t", "r", "u", "e", ",", "\"", "m", "e", "s", "s", "a", "g", "e", "\"", ":", "\"">>
\* {"type":"complete","success":false,"message":"
JsonCompleteFalseOpen ==
    <<"{", "\"", "t", "y", "p", "e", "\"", ":", "\"", "c", "o", "m", "p", "l", "e", "t", "e", "\"", ",", "\"", "s", "u", "c", "c", "e", "s", "s", "\"", ":", "f", "a", "l", "s", "e", ",", "\"", "m", "e", "s", "s", "a", "g", "e", "\"", ":", "\"">>

\* JSON.parse on the payloads of the build stream: a log event, a complete
\* event, or a text that does not parse
BuildParseFailure == [ok |-> FALSE, type |-> "none", line |-> <<>>, success |-> FALSE,
                      message |-> <<>>]

JsonParseBuild(text) ==
    LET s == Trim(text) IN
    IF Wraps(s, JsonLogOpen, JsonClose)
    THEN [BuildParseFailure EXCEPT !.ok = TRUE, !.type = "log",
                                   !.line = Between(s, JsonLogOpen, JsonClose)]
    ELSE IF Wraps(s, JsonCompleteTrueOpen, JsonClose)
    THEN [BuildParseFailure EXCEPT !.ok = TRUE, !.type = "complete", !.success = TRUE,
                                   !.message = Between(s, JsonCompleteTrueOpen, JsonClose)]
    ELSE IF Wraps(s, JsonCompleteFalseOpen, JsonClose)
    THEN [BuildParseFailure EXCEPT !.ok = TRUE, !.type = "complete",
                                   !.message = Between(s, JsonCompleteFalseOpen, JsonClose)]
    ELSE BuildParseFailure

\* a callback invocation of the build stream: onLog(line),
\* onComplete(success, message) or onError(error)
BuildCall(cb, arg, success) == [cb |-> cb, arg |-> arg, success |-> success]

\* a loop that goes on with the next line after onComplete instead of returning
RECURSIVE BuildProcessLinesNoReturn(_, _, _)
BuildProcessLinesNoReturn(lines, i, calls) ==
    IF i > Len(lines) THEN [calls |-> calls, returned |-> FALSE]
    ELSE IF StartsWith(lines[i], DataMarker)
    THEN LET event == JsonParseBuild(Substring(lines[i], 6)) IN
         IF event.ok /\ event.type = "log"
         THEN BuildProcessLinesNoReturn(lines, i + 1,
                                        Append(calls, BuildCall("onLog", event.line, FALSE)))
         ELSE IF event.ok /\ event.type = "complete"
         THEN BuildProcessLinesNoReturn(lines, i + 1,
                  Append(calls, BuildCall("onComplete", event.message, event.success)))
         ELSE BuildProcessLinesNoReturn(lines, i + 1, calls)
    ELSE BuildProcessLinesNoReturn(lines, i + 1, calls)

\* the for loop over the complete lines of one read: the callbacks invoked,
\* and whether the loop left the function through the return after onComplete
RECURSIVE BuildProcessLines(_, _, _)
BuildProcessLines(lines, i, calls) ==
    IF i > Len(lines) THEN [calls |-> calls, returned |-> FALSE]
    ELSE IF StartsWith(lines[i], DataMarker)
    THEN LET event == JsonParseBuild(Substring(lines[i], 6)) IN
         IF event.ok /\ event.type = "log"
         THEN BuildProcessLines(lines, i + 1,
                                Append(calls, BuildCall("onLog", event.line, FALSE)))
         ELSE IF event.ok /\ event.type = "complete"
         THEN [calls |-> Append(calls, BuildCall("onComplete", event.message, event.success)),
               returned |-> TRUE]
         ELSE BuildProcessLines(lines, i + 1, calls)
    ELSE BuildProcessLines(lines, i + 1, calls)

\* one iteration of the read loop on a chunk
BuildProcessChunk(buffer, chunk) ==
    LET done == BuildProcessLines(CompleteLines(buffer, chunk), 1, <<>>)
    IN [buffer |-> RetainedLine(buffer, chunk), calls |-> done.calls,
        returned |-> done.returned]

(***************************************************************************)
(* Bodies of the build stream, as the events the server emits.             *)
(***************************************************************************)
LogA == <<"a">>
LogB == <<"b">>
LogC == <<"c">>
Ok == <<"o", "k">>
Junk == <<"{", "x">>

LogEvent(line) == [type |-> "log", line |-> line, success |-> FALSE, message |-> <<>>]
CompleteEvent(success, message) ==
    [type |-> "complete", line |-> <<>>, success |-> success, message |-> message]
JunkEvent == [type |-> "junk", line |-> <<>>, success |-> FALSE, message |-> <<>>]

BuildStreamNames == {"succeeds", "garbled", "unfinished"}

\* "succeeds" goes on after its complete event; "garbled" carries a payload
\* that does not parse and reports a failed build; "unfinished" closes
\* without a complete event
BuildEvents(name) ==
    CASE name = "succeeds" ->
            <<LogEvent(LogA), LogEvent(LogB), CompleteEvent(TRUE, Ok), LogEvent(LogC)>>
      [] name = "garbled" ->
            <<LogEvent(LogA), JunkEvent, CompleteEvent(FALSE, Boom)>>
      [] name = "unfinished" -> <<LogEvent(LogA), LogEvent(LogB)>>
      [] OTHER -> <<>>

\* one event on the wire: a data line and a blank line
BuildWireEvent(event) ==
    DataMarker
        \o (CASE event.type = "log" -> JsonLogOpen \o event.line \o JsonClose
              [] event.type = "complete" ->
                    (IF event.success THEN JsonCompleteTrueOpen ELSE JsonCompleteFalseOpen)
                        \o event.message \o JsonClose
              [] OTHER -> Junk)
        \o <<NL, NL>>

RECURSIVE BuildWire(_)
BuildWire(events) ==
    IF events = <<>> THEN <<>> ELSE BuildWireEvent(Head(events)) \o BuildWire(Tail(events))

BuildStreamBody(name) == BuildWire(BuildEvents(name))

(***************************************************************************)
(* executeBuildCommandStream, step by step.                                *)
(***************************************************************************)
\* executeBuildCommandStream(request, callbacks, signal) up to its await
\* fetch: where it is suspended (pc), the body it reads and how far, its
\* buffer, the callbacks it has invoked, and how it ended (outcome:
\* "returned" or the name of the error it rejected with)
NewBuild ==
    [pc |-> "fetch", stream |-> "none", pos |-> 0, buffer |-> <<>>, calls |-> <<>>,
     readerLocked |-> FALSE, outcome |-> "pending"]

executeBuildCommandStream ==
    /\ build.pc = "idle"
    /\ build' = NewBuild
    /\ UNCHANGED <<chatVars, poll, ifaceVars>>

\* await fetch(...) rejects (for the abort signal or for the network), or
\* resolves with a response that is not ok or has no body: the error is
\* thrown before the try block
BuildFetchFails(name) ==
    /\ build.pc = "fetch"
    /\ name \in {"Error", "AbortError"}
    /\ build' = [build EXCEPT !.pc = "settled", !.outcome = name]
    /\ UNCHANGED <<chatVars, poll, ifaceVars>>

\* await fetch(...) resolves with a body; the reader is acquired
BuildFetchStreams(name) ==
    /\ build.pc = "fetch"
    /\ name \in BuildStreamNames
    /\ build' = [build EXCEPT !.pc = "read", !.stream = name, !.readerLocked = TRUE]
    /\ UNCHANGED <<chatVars, poll, ifaceVars>>

\* await reader.read() resolves with the bytes up to some position q
BuildReadChunk ==
    /\ build.pc = "read"
    /\ LET body == BuildStreamBody(build.stream) IN
       \E q \in ChunkEnds(body, build.pos) :
          LET r == BuildProcessChunk(build.buffer, SubSeq(body, build.pos + 1, q))
              read == [build EXCEPT !.pos = q, !.buffer = r.buffer, !.calls = @ \o r.calls]
          IN build' = IF r.returned
                      THEN [read EXCEPT !.pc = "settled", !.outcome = "returned",
                                        !.readerLocked = FALSE]
                      ELSE read
    /\ UNCHANGED <<chatVars, poll, ifaceVars>>

\* await reader.read() resolves with done
BuildReadEnd ==
    /\ build.pc = "read"
    /\ build.pos = Len(BuildStreamBody(build.stream))
    /\ build' = [build EXCEPT !.pc = "settled", !.outcome = "returned",
                              !.readerLocked = FALSE]
    /\ UNCHANGED <<chatVars, poll, ifaceVars>>

\* await reader.read() rejects: the catch block calls onError('请求已取消')
\* for an AbortError and rethrows
BuildReadFails(name) ==
    /\ build.pc = "read"
    /\ name \in {"Error", "AbortError"}
    /\ build' = [build EXCEPT !.pc = "settled", !.outcome = name, !.readerLocked = FALSE,
                              !.calls = IF name = "AbortError"
                                        THEN Append(@, BuildCall("onError", MsgCancelled, FALSE))
                                        ELSE @]
    /\ UNCHANGED <<chatVars, poll, ifaceVars>>

InitBuild ==
    /\ conversationId = "set"
    /\ messages = <<>>
    /\ isLoading = FALSE
    /\ error = Null
    /\ isInitializing = FALSE
    /\ abortController = 0
    /\ currentMessageIdRef = NoId
    /\ isInitializedRef = TRUE
    /\ aborted = {}
    /\ ops = <<>>
    /\ creating = "none"
    /\ chunking = "bytes"
    /\ poll = NoPoll
    /\ build = NoBuild
    /\ IfaceIdle

NextBuild ==
    \/ executeBuildCommandStream
    \/ \E name \in {"Error", "AbortError"} : BuildFetchFails(name)
    \/ \E name \in BuildStreamNames : BuildFetchStreams(name)
    \/ BuildReadChunk
    \/ BuildReadEnd
    \/ \E name \in {"Error", "AbortError"} : BuildReadFails(name)

SpecBuild == InitBuild /\ [][NextBuild]_vars

\* the callbacks the events of a stream call for: onLog for every log event
\* before the first complete event, then onComplete
RECURSIVE ExpectedBuildCalls(_)
ExpectedBuildCalls(events) ==
    IF events = <<>> THEN <<>>
    ELSE IF Head(events).type = "log"
    THEN <<BuildCall("onLog", Head(events).line, FALSE)>> \o ExpectedBuildCalls(Tail(events))
    ELSE IF Head(events).type = "complete"
    THEN <<BuildCall("onComplete", Head(events).message, Head(events).success)>>
    ELSE ExpectedBuildCalls(Tail(events))

IsPrefix(a, b) == Len(a) <= Len(b) /\ a = SubSeq(b, 1, Len(a))

\* the callbacks invoked by the decoding loop (all but the catch block's onError)
DecodedBuildCalls == SelectSeq(build.calls, LAMBDA c : c.cb # "onError")

(***************************************************************************)
(* C16 - build log round trip: whatever the chunking, the onLog and        *)
(* onComplete calls made so far are, in order and with the same arguments, *)
(* a prefix of those the events of the stream call for; a call that has    *)
(* returned made all of them; and an onComplete call is the last callback  *)
(* of its stream, also when more lines follow it.                          *)
(***************************************************************************)
C16_BuildLogRoundTrip ==
    build.pc \in {"read", "settled"} /\ build.stream # "none"
        => /\ IsPrefix(DecodedBuildCalls, ExpectedBuildCalls(BuildEvents(build.stream)))
           /\ build.outcome = "returned"
                  => build.calls = ExpectedBuildCalls(BuildEvents(build.stream))
           /\ \A i \in 1..Len(build.calls) :
                  build.calls[i].cb = "onComplete"
                      => i = Len(build.calls) /\ build.pc = "settled"

\* the read that carried the complete event also carried the log line after it
C16_CompleteWithTrailingLine ==
    /\ build.pc = "settled"
    /\ build.stream = "succeeds"
    /\ build.pos = Len(BuildStreamBody("succeeds"))
    /\ build.calls = <<BuildCall("onLog", LogA, FALSE), BuildCall("onLog", LogB, FALSE),
                       BuildCall("onComplete", Ok, TRUE)>>

(***************************************************************************)
(* One send on the further bodies, read event by event or fragmented after *)
(* any byte.                                                               *)
(***************************************************************************)
InitStreams ==
    /\ conversationId = "set"
    /\ messages = <<userMessage(1), tempAssistantMessage(1)>>
    /\ isLoading = TRUE
    /\ error = Null
    /\ isInitializing = FALSE
    /\ abortController = 1
    /\ currentMessageIdRef = TempAssistantId(1)
    /\ isInitializedRef = TRUE
    /\ aborted = {}
    /\ \E name \in MoreStreamNames :
          ops = <<[StartStream(NewOp(0)) EXCEPT !.pc = "read", !.stream = name,
                                                !.readerLocked = TRUE]>>
    /\ creating = "none"
    /\ chunking \in {"events", "bytes"}
    /\ poll = NoPoll
    /\ build = NoBuild
    /\ IfaceIdle

NextStreams ==
    \/ ReadChunk(1)
    \/ ReadEnd(1)

SpecStreams == InitStreams /\ [][NextStreams]_vars

\* the decoder has invoked callback cb for the k-th send
HasCall(k, cb) == \E i \in 1..Len(ops[k].calls) : ops[k].calls[i].cb = cb

\* the messages of the list that currentMessageIdRef.current identifies
CurrentMessages ==
    {i \in 1..Len(messages) : /\ messages[i].role = "assistant"
                              /\ messages[i].id = currentMessageIdRef}

(***************************************************************************)
(* C17 - the remapped id is tracked: while a send is reading its stream,   *)
(* once onStart has been invoked and no error has been reported, exactly   *)
(* one assistant message of the list has the id held in                    *)
(* currentMessageIdRef, so that the next data event is appended to it.     *)
(***************************************************************************)
C17_CurrentIdTracksMessage ==
    \A k \in 1..Len(ops) :
        (ops[k].pc = "read" /\ HasCall(k, "onStart") /\ ~HasCall(k, "onError"))
            => Cardinality(CurrentMessages) = 1

\* the assistant message of the k-th turn after the "interleaved" body
InterleavedAssistantMessage(k) ==
    [id |-> IdOf(ServerMessageId(k)), role |-> "assistant", content |-> ContentH \o ContentI,
     thinkingContent |-> ThinkT \o ThinkU, loading |-> FALSE, statusText |-> "none"]

(***************************************************************************)
(* C18 - events are applied in arrival order: when a send that was not     *)
(* cancelled returns normally after reading the whole body start, thinking *)
(* "t", data "h", thinking "u", data "i", end, the list holds exactly one  *)
(* assistant message of the turn, whose content is "hi" and whose          *)
(* thinkingContent is "tu".                                                *)
(***************************************************************************)
C18_ContentInArrivalOrder ==
    [][\A k \in 1..Len(ops) :
          (/\ Settles(k)
           /\ k \notin aborted
           /\ ops'[k].caught = "returned"
           /\ ops[k].stream = "interleaved")
              => /\ Cardinality(AssistantOfTurn(messages', k)) = 1
                 /\ \A i \in AssistantOfTurn(messages', k) :
                        messages'[i] = InterleavedAssistantMessage(k)]_vars

\* the callbacks the "malformed" body calls for after its malformed event
CallsAfterMalformed(k) ==
    <<Call("onChunk", Hi, FALSE), Call("onEnd", ServerMessageId(k), FALSE)>>

(***************************************************************************)
(* C19 - a malformed payload does not stop the stream: when every byte of  *)
(* the body start, data with a payload that does not parse, data "hi", end *)
(* has been read, onError has been invoked for the malformed payload and   *)
(* the callbacks invoked after it are onChunk("hi") and onEnd, in this     *)
(* order.                                                                  *)
(***************************************************************************)
C19_MalformedPayloadDoesNotStopStream ==
    \A k \in 1..Len(ops) :
        (/\ ops[k].pc = "read"
         /\ ops[k].stream = "malformed"
         /\ ops[k].pos = Len(StreamBody("malformed", k)))
            => \E i \in 1..Len(ops[k].calls) :
                  /\ ops[k].calls[i] = Call("onError", MsgParseFailed, FALSE)
                  /\ SubSeq(ops[k].calls, i + 1, Len(ops[k].calls)) = CallsAfterMalformed(k)

(***************************************************************************)
(* C20 - a response that is not an event stream is refused at once: the    *)
(* step in which a send settles on the error '服务器不支持流式响应' starts *)
(* from the pending fetch, with the reader not acquired, nothing read and  *)
(* no callback invoked; and a reader is only ever held for a response that *)
(* is an event stream.                                                     *)
(***************************************************************************)
C20_NonStreamResponseRejectsEarly ==
    [][\A k \in 1..Len(ops) :
          /\ (Settles(k) /\ ops'[k].caught = "Error" /\ error' = Some(MsgNotStream))
                 => /\ ops[k].pc = "fetch"
                    /\ ~ops[k].readerLocked
                    /\ ops[k].pos = 0
                    /\ ops[k].calls = <<>>
          /\ ops'[k].readerLocked => ops'[k].stream # "none"]_vars

\* a send has settled on the content-type error and its placeholder is gone
C20_RefusedNonStreamResponse ==
    \E k \in 1..Len(ops) :
        /\ ops[k].pc = "settled"
        /\ ops[k].caught = "Error"
        /\ ops[k].sent
        /\ error = Some(MsgNotStream)
        /\ AssistantOfTurn(messages, k) = {}

(***************************************************************************)
(* The two stream readers: one send from its pending fetch, which the user *)
(* may cancel, on a body fragmented after any byte; and, once the send has *)
(* returned, one executeBuildCommandStream call.                           *)
(***************************************************************************)
InitReaders ==
    /\ conversationId = "set"
    /\ messages = <<userMessage(1), tempAssistantMessage(1)>>
    /\ isLoading = TRUE
    /\ error = Null
    /\ isInitializing = FALSE
    /\ abortController = 1
    /\ currentMessageIdRef = TempAssistantId(1)
    /\ isInitializedRef = TRUE
    /\ aborted = {}
    /\ ops = <<StartStream(NewOp(0))>>
    /\ creating = "none"
    /\ chunking = "bytes"
    /\ poll = NoPoll
    /\ build = NoBuild
    /\ IfaceIdle

NextReaders ==
    \/ \E outcome \in FetchOutcomes \cup {"abort"} : FetchFails(1, outcome)
    \/ \E name \in StreamNames : FetchStreams(1, name)
    \/ ReadChunk(1)
    \/ ReadEnd(1)
    \/ ReadFails(1)
    \/ ReadAborts(1)
    \/ handleCancel
    \/ ~InFlight(1) /\ executeBuildCommandStream
    \/ \E name \in {"Error", "AbortError"} : BuildFetchFails(name)
    \/ \E name \in BuildStreamNames : BuildFetchStreams(name)
    \/ BuildReadChunk
    \/ BuildReadEnd
    \/ \E name \in {"Error", "AbortError"} : BuildReadFails(name)

SpecReaders == InitReaders /\ [][NextReaders]_vars

(***************************************************************************)
(* C21 - the reader's lock is released on every exit path: in              *)
(* sendMessageStream and in executeBuildCommandStream the reader is held   *)
(* only while the read loop is running; a call that has left the loop, by  *)
(* the end of the stream, a complete event, an abort, a read error or an   *)
(* error thrown inside the loop, holds no lock.                            *)
(***************************************************************************)
C21_ReaderReleasedOnEveryExit ==
    /\ \A k \in 1..Len(ops) : ops[k].pc # "read" => ~ops[k].readerLocked
    /\ build.pc \in {"fetch", "settled"} => ~build.readerLocked

\* both calls had acquired their reader and were ended by an AbortError
\* rejecting a pending read
C21_BothReadersAborted ==
    /\ ops[1].pc = "settled"
    /\ ops[1].caught = "AbortError"
    /\ error = Some(MsgCancelled)
    /\ ~ops[1].readerLocked
    /\ build.pc = "settled"
    /\ build.outcome = "AbortError"
    /\ build.stream # "none"
    /\ ~build.readerLocked

(***************************************************************************)
(* ChatInterface (src/src/components/ChatInterface.tsx): the write, build, *)
(* start and stop buttons under a code block, and the operations they      *)
(* start, one step per await.                                              *)
(***************************************************************************)
\* the calls of the four handlers that are followed
MaxRuns == 3

\* a buildResults entry; of its fields the buttons read success and phase
Result(success, phase) == [present |-> TRUE, success |-> success, phase |-> phase]

\* a call of one of the handlers (kind: "write", "build", "dev" or "stop") for
\* message m: where it is suspended (pc), for a stream the body it reads, how
\* far, and its buffer, how it ended (outcome: "returned" or the name of the
\* error thrown to the handler) and the success its onComplete was given
NewRun(kind, m, pc) ==
    [kind |-> kind, m |-> m, pc |-> pc, stream |-> "none", pos |-> 0, buffer |-> <<>>,
     outcome |-> "pending", completed |-> "none"]

\* a call that has returned: its locals are gone
SettledRun(run, outcome) ==
    [NewRun(run.kind, run.m, "settled") EXCEPT !.outcome = outcome,
                                              !.completed = run.completed]

\* the render guards of the buttons
isWritten(m) == m \in writtenMessageIds
isBuilt(m) == m \in builtMessageIds
isBuilding(m) == buildingMessageId = m
canStartDev(m) == isWritten(m) /\ isBuilt(m) /\ ~isBuilding(m) /\ m \notin devServerRunning

\* the errors ChatContainer.handleBuild rethrows to handleWriteXml
WriteErrors == {MsgBuildTimeout, MsgBuildFailed}

\* the write button -> handleWriteXml -> ChatContainer.handleBuild, up to its
\* first await
handleWriteXml(m) ==
    /\ m \in Messages
    /\ ~isWritten(m)
    /\ ~isBuilding(m)
    /\ Len(runs) < MaxRuns
    /\ buildingMessageId' = m
    /\ error' = Null
    /\ runs' = Append(runs, NewRun("write", m, "onBuild"))
    /\ UNCHANGED <<conversationId, messages, isLoading, isInitializing, abortController,
                   currentMessageIdRef, isInitializedRef, aborted, ops, creating, chunking, poll, build>>
    /\ UNCHANGED <<builtMessageIds, writtenMessageIds, buildResults, expandedBuildLogs,
                   devServerRunning, devServerAbortControllersRef, devAborted>>

\* a handleWriteXml that marks the message as written whatever onBuild did
onBuildSettlesMarksWritten(r, err) ==
    /\ r \in 1..Len(runs)
    /\ runs[r].kind = "write"
    /\ runs[r].pc = "onBuild"
    /\ err \in {Null} \cup {Some(e) : e \in WriteErrors}
    /\ writtenMessageIds' = writtenMessageIds \cup {runs[r].m}
    /\ IF err.null
       THEN /\ error' = error
            /\ runs' = [runs EXCEPT ![r] = SettledRun(@, "returned")]
       ELSE /\ error' = err
            /\ runs' = [runs EXCEPT ![r] = SettledRun(@, "Error")]
    /\ buildingMessageId' = 0
    /\ UNCHANGED <<conversationId, messages, isLoading, isInitializing, abortController,
                   currentMessageIdRef, isInitializedRef, aborted, ops, creating, chunking, poll, build>>
    /\ UNCHANGED <<builtMessageIds, buildResults, expandedBuildLogs, devServerRunning,
                   devServerAbortControllersRef, devAborted>>

\* await onBuild(xmlContent) settles: handleBuild returned the task (err is
\* null), or set the error banner and rethrew; then the finally of handleWriteXml
onBuildSettles(r, err) ==
    /\ r \in 1..Len(runs)
    /\ runs[r].kind = "write"
    /\ runs[r].pc = "onBuild"
    /\ err \in {Null} \cup {Some(e) : e \in WriteErrors}
    /\ IF err.null
       THEN /\ writtenMessageIds' = writtenMessageIds \cup {runs[r].m}
            /\ error' = error
            /\ runs' = [runs EXCEPT ![r] = SettledRun(@, "returned")]
       ELSE /\ error' = err
            /\ runs' = [runs EXCEPT ![r] = SettledRun(@, "Error")]
            /\ UNCHANGED writtenMessageIds
    /\ buildingMessageId' = 0
    /\ UNCHANGED <<conversationId, messages, isLoading, isInitializing, abortController,
                   currentMessageIdRef, isInitializedRef, aborted, ops, creating, chunking, poll, build>>
    /\ UNCHANGED <<builtMessageIds, buildResults, expandedBuildLogs, devServerRunning,
                   devServerAbortControllersRef, devAborted>>

\* the build button -> handleBuildXml, up to the await fetch of
\* executeBuildCommandStream (called without a signal)
handleBuildXml(m) ==
    /\ m \in Messages
    /\ isWritten(m)
    /\ ~isBuilt(m)
    /\ ~isBuilding(m)
    /\ Len(runs) < MaxRuns
    /\ buildingMessageId' = m
    /\ expandedBuildLogs' = expandedBuildLogs \cup {m}
    /\ runs' = Append(runs, NewRun("build", m, "fetch"))
    /\ UNCHANGED <<chatVars, poll, build>>
    /\ UNCHANGED <<builtMessageIds, writtenMessageIds, buildResults, devServerRunning,
                   devServerAbortControllersRef, devAborted>>

\* the part of the state the callbacks of the two streams work on
Interface ==
    [buildResults |-> buildResults, builtMessageIds |-> builtMessageIds,
     devServerRunning |-> devServerRunning, controllers |-> devServerAbortControllersRef]

\* the callbacks handleBuildXml passes to executeBuildCommandStream
buildOnLog(st, m) ==
    [st EXCEPT !.buildResults[m] = Result("null", "build")]

buildOnComplete(st, m, success) ==
    [st EXCEPT !.buildResults[m] = Result(IF success THEN "true" ELSE "false", "build"),
               !.builtMessageIds = IF success THEN @ \cup {m} ELSE @]

buildOnError(st, m) ==
    [st EXCEPT !.buildResults[m] = Result("false", "build")]

\* the callbacks startQuarkusDevServer passes: onLog spreads the current
\* entry; onComplete and onError delete the controller registered for m and
\* remove m from devServerRunning, as the catch block does
devOnLog(st, m) ==
    [st EXCEPT !.buildResults[m].present = TRUE]

devCleanup(st, m) ==
    [st EXCEPT !.controllers[m] = 0, !.devServerRunning = @ \ {m}]

ApplyRunCall(st, run, c) ==
    CASE run.kind = "build" /\ c.cb = "onLog" -> buildOnLog(st, run.m)
      [] run.kind = "build" /\ c.cb = "onComplete" -> buildOnComplete(st, run.m, c.success)
      [] run.kind = "build" /\ c.cb = "onError" -> buildOnError(st, run.m)
      [] run.kind = "dev" /\ c.cb = "onLog" -> devOnLog(st, run.m)
      [] run.kind = "dev" /\ c.cb \in {"onComplete", "onError"} -> devCleanup(st, run.m)
      [] OTHER -> st

RECURSIVE ApplyRunCalls(_, _, _)
ApplyRunCalls(st, run, calls) ==
    IF calls = <<>> THEN st
    ELSE ApplyRunCalls(ApplyRunCall(st, run, Head(calls)), run, Tail(calls))

\* the catch block of handleBuildXml, of startQuarkusDevServer
RunCatch(st, run) ==
    IF run.kind = "build" THEN [st EXCEPT !.buildResults[run.m] = Result("false", "build")]
    ELSE devCleanup(st, run.m)

\* the callbacks' updates are stored
Stored(st) ==
    /\ buildResults' = st.buildResults
    /\ builtMessageIds' = st.builtMessageIds
    /\ devServerRunning' = st.devServerRunning
    /\ devServerAbortControllersRef' = st.controllers

\* the handler returns or rethrows; the finally of handleBuildXml resets
\* buildingMessageId (startQuarkusDevServer has no finally)
RunSettles(r, run, st, outcome) ==
    /\ Stored(st)
    /\ buildingMessageId' = IF run.kind = "build" THEN 0 ELSE buildingMessageId
    /\ runs' = [runs EXCEPT ![r] = SettledRun(run, outcome)]

\* executeBuildCommandStream throws to its caller
RunThrows(r, run, st, name) == RunSettles(r, run, RunCatch(st, run), name)

\* await fetch(...) rejects, or resolves with a response that is refused: the
\* error is thrown before the try block of executeBuildCommandStream; an
\* AbortError needs an aborted signal
RunFetchFails(r, name) ==
    /\ r \in 1..Len(runs)
    /\ runs[r].pc = "fetch"
    /\ name \in {"Error", "AbortError"}
    /\ name = "AbortError" => r \in devAborted
    /\ RunThrows(r, runs[r], Interface, name)
    /\ UNCHANGED <<chatVars, poll, build>>
    /\ UNCHANGED <<writtenMessageIds, expandedBuildLogs, devAborted>>

\* await fetch(...) resolves with a body; the reader is acquired
RunFetchStreams(r, name) ==
    /\ r \in 1..Len(runs)
    /\ runs[r].pc = "fetch"
    /\ name \in BuildStreamNames
    /\ runs' = [runs EXCEPT ![r] = [@ EXCEPT !.pc = "read", !.stream = name]]
    /\ UNCHANGED <<chatVars, poll, build>>
    /\ UNCHANGED <<buildingMessageId, builtMessageIds, writtenMessageIds, buildResults,
                   expandedBuildLogs, devServerRunning, devServerAbortControllersRef,
                   devAborted>>

\* the success given to onComplete, if it is among the callbacks invoked
Completed(calls, before) ==
    IF calls # <<>> /\ calls[Len(calls)].cb = "onComplete"
    THEN (IF calls[Len(calls)].success THEN "true" ELSE "false")
    ELSE before

\* await reader.read() resolves with the bytes up to some position q: one
\* iteration of the read loop, from which onComplete returns
RunReadChunk(r) ==
    /\ r \in 1..Len(runs)
    /\ runs[r].pc = "read"
    /\ LET body == BuildStreamBody(runs[r].stream) IN
       \E q \in ChunkEnds(body, runs[r].pos) :
          LET d == BuildProcessChunk(runs[r].buffer, SubSeq(body, runs[r].pos + 1, q))
              read == [runs[r] EXCEPT !.pos = q, !.buffer = d.buffer,
                                      !.completed = Completed(d.calls, @)]
              st == ApplyRunCalls(Interface, runs[r], d.calls)
          IN IF d.returned
             THEN RunSettles(r, read, st, "returned")
             ELSE /\ Stored(st)
                  /\ runs' = [runs EXCEPT ![r] = read]
                  /\ UNCHANGED buildingMessageId
    /\ UNCHANGED <<chatVars, poll, build>>
    /\ UNCHANGED <<writtenMessageIds, expandedBuildLogs, devAborted>>

\* await reader.read() resolves with done: executeBuildCommandStream returns
RunReadEnd(r) ==
    /\ r \in 1..Len(runs)
    /\ runs[r].pc = "read"
    /\ runs[r].pos = Len(BuildStreamBody(runs[r].stream))
    /\ RunSettles(r, runs[r], Interface, "returned")
    /\ UNCHANGED <<chatVars, poll, build>>
    /\ UNCHANGED <<writtenMessageIds, expandedBuildLogs, devAborted>>

\* await reader.read() rejects: for an AbortError the catch block of
\* executeBuildCommandStream calls onError('请求已取消'), then it rethrows
RunReadFails(r, name) ==
    /\ r \in 1..Len(runs)
    /\ runs[r].pc = "read"
    /\ name \in {"Error", "AbortError"}
    /\ name = "AbortError" => r \in devAborted
    /\ RunThrows(r, runs[r],
                 IF name = "AbortError"
                 THEN ApplyRunCall(Interface, runs[r], BuildCall("onError", MsgCancelled, FALSE))
                 ELSE Interface,
                 name)
    /\ UNCHANGED <<chatVars, poll, build>>
    /\ UNCHANGED <<writtenMessageIds, expandedBuildLogs, devAborted>>

\* the start button -> startQuarkusDevServer, up to the await of the
\* executeBuildCommand call that frees the port
startQuarkusDevServer(m) ==
    /\ m \in Messages
    /\ canStartDev(m)
    /\ Len(runs) < MaxRuns
    /\ devServerRunning' = devServerRunning \cup {m}
    /\ devServerAbortControllersRef' =
           [devServerAbortControllersRef EXCEPT ![m] = Len(runs) + 1]
    /\ buildResults' = [buildResults EXCEPT ![m] = Result("null", "dev")]
    /\ runs' = Append(runs, NewRun("dev", m, "portKill"))
    /\ UNCHANGED <<chatVars, poll, build>>
    /\ UNCHANGED <<buildingMessageId, builtMessageIds, writtenMessageIds, expandedBuildLogs,
                   devAborted>>

\* await executeBuildCommand(...) settles (its result and its failure only
\* differ in the log lines kept); executeBuildCommandStream is called with
\* the controller's signal, and its fetch rejects at once when the signal is
\* already aborted
executeBuildCommandSettles(r) ==
    /\ r \in 1..Len(runs)
    /\ runs[r].pc = "portKill"
    /\ LET st == [Interface EXCEPT !.buildResults[runs[r].m] = Result("null", "dev")] IN
       IF r \in devAborted
       THEN RunThrows(r, runs[r], st, "AbortError")
       ELSE /\ Stored(st)
            /\ runs' = [runs EXCEPT ![r] = [@ EXCEPT !.pc = "fetch"]]
            /\ UNCHANGED buildingMessageId
    /\ UNCHANGED <<chatVars, poll, build>>
    /\ UNCHANGED <<writtenMessageIds, expandedBuildLogs, devAborted>>

\* a stopQuarkusDevServer that aborts every controller that is registered
stopQuarkusDevServerAbortsAll(m) ==
    /\ m \in Messages
    /\ m \in devServerRunning
    /\ Len(runs) < MaxRuns
    /\ devAborted' = devAborted \cup ({devServerAbortControllersRef[n] : n \in Messages} \ {0})
    /\ devServerAbortControllersRef' = [n \in Messages |-> 0]
    /\ runs' = Append(runs, NewRun("stop", m, "stopService"))
    /\ UNCHANGED <<chatVars, poll, build>>
    /\ UNCHANGED <<buildingMessageId, builtMessageIds, writtenMessageIds, buildResults,
                   expandedBuildLogs, devServerRunning>>

\* a stopQuarkusDevServer whose catch block leaves the message running
stopServiceSettlesKeepsRunning(r, ok) ==
    /\ r \in 1..Len(runs)
    /\ runs[r].pc = "stopService"
    /\ IF ok
       THEN /\ devServerRunning' = devServerRunning \ {runs[r].m}
            /\ buildResults' =
                   [buildResults EXCEPT ![runs[r].m] =
                       IF @.present THEN [@ EXCEPT !.success = "true", !.phase = "build"]
                       ELSE @]
            /\ runs' = [runs EXCEPT ![r] = SettledRun(@, "returned")]
       ELSE /\ runs' = [runs EXCEPT ![r] = SettledRun(@, "Error")]
            /\ UNCHANGED <<buildResults, devServerRunning>>
    /\ UNCHANGED <<chatVars, poll, build>>
    /\ UNCHANGED <<buildingMessageId, builtMessageIds, writtenMessageIds, expandedBuildLogs,
                   devServerAbortControllersRef, devAborted>>

\* the stop button -> stopQuarkusDevServer, up to its await stopService
stopQuarkusDevServer(m) ==
    /\ m \in Messages
    /\ m \in devServerRunning
    /\ Len(runs) < MaxRuns
    /\ devAborted' = IF devServerAbortControllersRef[m] # 0
                     THEN devAborted \cup {devServerAbortControllersRef[m]}
                     ELSE devAborted
    /\ devServerAbortControllersRef' = [devServerAbortControllersRef EXCEPT ![m] = 0]
    /\ runs' = Append(runs, NewRun("stop", m, "stopService"))
    /\ UNCHANGED <<chatVars, poll, build>>
    /\ UNCHANGED <<buildingMessageId, builtMessageIds, writtenMessageIds, buildResults,
                   expandedBuildLogs, devServerRunning>>

\* await chatApi.stopService(8080) settles
stopServiceSettles(r, ok) ==
    /\ r \in 1..Len(runs)
    /\ runs[r].pc = "stopService"
    /\ devServerRunning' = devServerRunning \ {runs[r].m}
    /\ IF ok
       THEN /\ buildResults' =
                   [buildResults EXCEPT ![runs[r].m] =
                       IF @.present THEN [@ EXCEPT !.success = "true", !.phase = "build"]
                       ELSE @]
            /\ runs' = [runs EXCEPT ![r] = SettledRun(@, "returned")]
       ELSE /\ runs' = [runs EXCEPT ![r] = SettledRun(@, "Error")]
            /\ UNCHANGED buildResults
    /\ UNCHANGED <<chatVars, poll, build>>
    /\ UNCHANGED <<buildingMessageId, builtMessageIds, writtenMessageIds, expandedBuildLogs,
                   devServerAbortControllersRef, devAborted>>

\* a conversation exists and no send is in flight; the code blocks of the
\* messages are rendered with nothing written yet; the build and dev streams
\* are read event by event
InitInterface ==
    /\ conversationId = "set"
    /\ messages = <<>>
    /\ isLoading = FALSE
    /\ error = Null
    /\ isInitializing = FALSE
    /\ abortController = 0
    /\ currentMessageIdRef = NoId
    /\ isInitializedRef = TRUE
    /\ aborted = {}
    /\ ops = <<>>
    /\ creating = "none"
    /\ chunking = "events"
    /\ poll = NoPoll
    /\ build = NoBuild
    /\ IfaceIdle

NextInterface ==
    \/ \E m \in Messages : handleWriteXml(m)
    \/ \E r \in 1..MaxRuns, err \in {Null} \cup {Some(e) : e \in WriteErrors} :
          onBuildSettles(r, err)
    \/ \E m \in Messages : handleBuildXml(m)
    \/ \E r \in 1..MaxRuns, name \in {"Error", "AbortError"} : RunFetchFails(r, name)
    \/ \E r \in 1..MaxRuns, name \in BuildStreamNames : RunFetchStreams(r, name)
    \/ \E r \in 1..MaxRuns : RunReadChunk(r)
    \/ \E r \in 1..MaxRuns : RunReadEnd(r)
    \/ \E r \in 1..MaxRuns, name \in {"Error", "AbortError"} : RunReadFails(r, name)
    \/ \E m \in Messages : startQuarkusDevServer(m)
    \/ \E r \in 1..MaxRuns : executeBuildCommandSettles(r)

SpecInterface == InitInterface /\ [][NextInterface]_vars

\* this step is a handler call of this kind for message m, up to its first await
StartsRun(kind, m) ==
    /\ Len(runs') = Len(runs) + 1
    /\ runs'[Len(runs')].kind = kind
    /\ runs'[Len(runs')].m = m

\* this step is the one in which run r returns or throws to its handler's caller
RunSettlesNow(r) ==
    r \in 1..Len(runs) /\ runs[r].pc # "settled" /\ runs'[r].pc = "settled"

(***************************************************************************)
(* C22 - the stages of the build pipeline are gated: a message enters      *)
(* writtenMessageIds only in the step in which a write for it returns      *)
(* without an error; a build is started only for a written message; a      *)
(* message enters builtMessageIds only in the step in which a build        *)
(* stream for it reports complete with success = true; the dev server is   *)
(* started only for a message that is written, built, not building and     *)
(* not running; and builtMessageIds stays a subset of writtenMessageIds.   *)
(***************************************************************************)
C22_BuildPipelineGating ==
    [][\A m \in Messages :
          /\ m \in writtenMessageIds' \ writtenMessageIds
                => \E r \in 1..Len(runs) :
                      /\ RunSettlesNow(r)
                      /\ runs[r].kind = "write"
                      /\ runs[r].m = m
                      /\ runs'[r].outcome = "returned"
          /\ StartsRun("build", m) => m \in writtenMessageIds
          /\ m \in builtMessageIds' \ builtMessageIds
                => \E r \in 1..Len(runs) :
                      /\ RunSettlesNow(r)
                      /\ runs[r].kind = "build"
                      /\ runs[r].m = m
                      /\ runs'[r].completed = "true"
          /\ StartsRun("dev", m)
                => /\ m \in writtenMessageIds
                   /\ m \in builtMessageIds
                   /\ buildingMessageId # m
                   /\ m \notin devServerRunning
          /\ builtMessageIds' \subseteq writtenMessageIds']_vars

\* the dev server has been started for a message that went through the
\* write and the build
C22_DevServerStartedAfterBuild ==
    \E r \in 1..Len(runs) :
        /\ runs[r].kind = "dev"
        /\ runs[r].m \in builtMessageIds
        /\ runs[r].m \in writtenMessageIds
        /\ \E b \in 1..Len(runs) :
              runs[b].kind = "build" /\ runs[b].m = runs[r].m /\ runs[b].completed = "true"

(***************************************************************************)
(* The dev servers next to a chat send: the code blocks of the messages    *)
(* have been written and built, and a later send is reading its stream.    *)
(***************************************************************************)
InitDevServer ==
    /\ conversationId = "set"
    /\ messages = <<userMessage(1), tempAssistantMessage(1)>>
    /\ isLoading = TRUE
    /\ error = Null
    /\ isInitializing = FALSE
    /\ abortController = 1
    /\ currentMessageIdRef = TempAssistantId(1)
    /\ isInitializedRef = TRUE
    /\ aborted = {}
    /\ ops = <<[StartStream(NewOp(0)) EXCEPT !.pc = "read", !.stream = "complete",
                                            !.readerLocked = TRUE]>>
    /\ creating = "none"
    /\ chunking = "events"
    /\ poll = NoPoll
    /\ build = NoBuild
    /\ buildingMessageId = 0
    /\ builtMessageIds = Messages
    /\ writtenMessageIds = Messages
    /\ buildResults = [m \in Messages |-> Result("true", "build")]
    /\ expandedBuildLogs = Messages
    /\ devServerRunning = {}
    /\ devServerAbortControllersRef = [m \in Messages |-> 0]
    /\ devAborted = {}
    /\ runs = <<>>

\* a dev server logs until it is stopped ("unfinished"), or exits by itself
\* and reports it ("succeeds")
DevStreamNames == {"succeeds", "unfinished"}

NextDevServer ==
    \/ ReadChunk(1)
    \/ ReadEnd(1)
    \/ ReadAborts(1)
    \/ handleCancel
    \/ \E m \in Messages : startQuarkusDevServer(m)
    \/ \E r \in 1..MaxRuns : executeBuildCommandSettles(r)
    \/ \E r \in 1..MaxRuns, name \in {"Error", "AbortError"} : RunFetchFails(r, name)
    \/ \E r \in 1..MaxRuns, name \in DevStreamNames : RunFetchStreams(r, name)
    \/ \E r \in 1..MaxRuns : RunReadChunk(r)
    \/ \E r \in 1..MaxRuns : RunReadEnd(r)
    \/ \E r \in 1..MaxRuns, name \in {"Error", "AbortError"} : RunReadFails(r, name)
    \/ \E m \in Messages : stopQuarkusDevServer(m)
    \/ \E r \in 1..MaxRuns, ok \in BOOLEAN : stopServiceSettles(r, ok)

SpecDevServer == InitDevServer /\ [][NextDevServer]_vars

(***************************************************************************)
(* C23 - the dev-server tokens and the chat token are independent: a       *)
(* controller registered for a message belongs to a dev server of that     *)
(* message; a dev-server controller is aborted only by                     *)
(* stopQuarkusDevServer, which aborts and unregisters at most the          *)
(* controller registered for its own message; no step of                   *)
(* stopQuarkusDevServer aborts or clears the chat send's controller or     *)
(* changes messages or isLoading; and the step that aborts the chat send   *)
(* (handleCancel) aborts no dev-server controller and leaves the registry  *)
(* and devServerRunning as they are.                                       *)
(***************************************************************************)
C23_IndependentCancellationTokens ==
    [][/\ \A m \in Messages :
             devServerAbortControllersRef[m] # 0
                => /\ runs[devServerAbortControllersRef[m]].kind = "dev"
                   /\ runs[devServerAbortControllersRef[m]].m = m
       /\ devAborted' # devAborted => \E m \in Messages : StartsRun("stop", m)
       /\ \A m \in Messages :
             StartsRun("stop", m)
                => /\ devAborted' \ devAborted \subseteq {devServerAbortControllersRef[m]}
                   /\ \A n \in Messages \ {m} :
                         devServerAbortControllersRef'[n] = devServerAbortControllersRef[n]
                   /\ UNCHANGED <<abortController, aborted, messages, isLoading>>
       /\ \A r \in 1..Len(runs) :
             (RunSettlesNow(r) /\ runs[r].kind = "stop")
                => UNCHANGED <<abortController, aborted, messages, isLoading, devAborted,
                               devServerAbortControllersRef>>
       /\ aborted' # aborted
             => UNCHANGED <<devAborted, devServerAbortControllersRef, devServerRunning>>]_vars

\* the send has been cancelled and the dev server of message 1 stopped, while
\* the dev server of message 2 runs on with its controller registered and
\* not aborted
C23_OneServerStoppedOtherRuns ==
    /\ 1 \in aborted
    /\ \E r \in devAborted : runs[r].m = 1
    /\ 2 \in devServerRunning
    /\ devServerAbortControllersRef[2] # 0
    /\ devServerAbortControllersRef[2] \notin devAborted
    /\ runs[devServerAbortControllersRef[2]].pc = "read"

\* the number of newlines among the first n bytes of a body
NewlinesIn(body, n) == Cardinality({i \in 1..n : body[i] = NL})

\* whatever the next read delivers of a body, of which pos bytes were read
\* and the text buffer was kept: the lines handed to the for loop are the
\* lines of the body that the read completes, whole and in order, and the text
\* kept is what follows the last newline read
LinesExactlyOnce(body, pos, buffer) ==
    \A q \in ChunkEnds(body, pos) :
        LET chunk == SubSeq(body, pos + 1, q) IN
        /\ CompleteLines(buffer, chunk)
              = SubSeq(Split(body), NewlinesIn(body, pos) + 1, NewlinesIn(body, q))
        /\ RetainedLine(buffer, chunk) = Split(SubSeq(body, 1, q))[NewlinesIn(body, q) + 1]

(***************************************************************************)
(* C24 - a line split across reads is processed once and whole: in both    *)
(* decoders, wherever the reads end, each read hands to the line loop      *)
(* exactly the lines of the body whose newline it delivers, each complete  *)
(* (the part received in earlier reads prefixed) and in order, and keeps   *)
(* the unfinished last line for the next read; so every line of the body   *)
(* is processed once, none is lost, cut or repeated.                       *)
(***************************************************************************)
C24_SplitLineProcessedOnce ==
    /\ \A k \in 1..Len(ops) :
          ops[k].pc = "read"
             => LinesExactlyOnce(StreamBody(ops[k].stream, k), ops[k].pos, ops[k].buffer)
    /\ build.pc = "read"
          => LinesExactlyOnce(BuildStreamBody(build.stream), build.pos, build.buffer)

\* the chat decoder has read its stream to the end, and the build decoder
\* holds the first part of a line that follows lines it has processed
C24_PartialLineRetained ==
    /\ ops[1].pc = "settled"
    /\ ops[1].caught = "returned"
    /\ build.pc = "read"
    /\ build.buffer # <<>>
    /\ build.calls # <<>>
    /\ build.pos > Len(build.buffer)

(***************************************************************************)
(* One send on the bodies that exercise the dispatch rules and the ends of *)
(* a stream, read event by event or fragmented after any byte.             *)
(***************************************************************************)
InitEvents ==
    /\ conversationId = "set"
    /\ messages = <<userMessage(1), tempAssistantMessage(1)>>
    /\ isLoading = TRUE
    /\ error = Null
    /\ isInitializing = FALSE
    /\ abortController = 1
    /\ currentMessageIdRef = TempAssistantId(1)
    /\ isInitializedRef = TRUE
    /\ aborted = {}
    /\ \E name \in EventStreamNames :
          ops = <<[StartStream(NewOp(0)) EXCEPT !.pc = "read", !.stream = name,
                                                !.readerLocked = TRUE]>>
    /\ creating = "none"
    /\ chunking \in {"events", "bytes"}
    /\ poll = NoPoll
    /\ build = NoBuild
    /\ IfaceIdle

NextEvents ==
    \/ ReadChunk(1)
    \/ ReadEnd(1)

SpecEvents == InitEvents /\ [][NextEvents]_vars

\* the callbacks the "dispatch" body calls for: its start event, one data
\* event with the payload of the second data line, its end event
DispatchCalls(k) ==
    <<Call("onStart", ServerMessageId(k), FALSE), Call("onChunk", ContentI, FALSE),
      Call("onEnd", ServerMessageId(k), FALSE)>>

(***************************************************************************)
(* C25 - the dispatch rules of the chat decoder: a blank line dispatches   *)
(* one event exactly when a data payload is pending, with the type of the  *)
(* pending event line or data when there is none, and with the payload of  *)
(* the last data line; every blank line resets both.  So when every byte   *)
(* of the body start, "event: error" + blank line, two data lines "h" and  *)
(* "i" + blank line, blank line, end has been read, the callbacks invoked  *)
(* are onStart, onChunk("i"), onEnd.                                       *)
(***************************************************************************)
C25_BlankLineDispatchesPendingEvent ==
    \A k \in 1..Len(ops) :
        (/\ ops[k].pc = "read"
         /\ ops[k].stream = "dispatch"
         /\ ops[k].pos = Len(StreamBody("dispatch", k)))
            => ops[k].calls = DispatchCalls(k)

(***************************************************************************)
(* C26 - a malformed line of the build stream is skipped and reported:     *)
(* when executeBuildCommandStream has returned from the body log "a", a    *)
(* data line whose payload does not parse, complete(false, "boom"), the    *)
(* callbacks invoked are onLog("a"), then onError for the malformed line,  *)
(* then onComplete(false, "boom").                                         *)
(***************************************************************************)
C26_MalformedBuildLineReported ==
    (build.pc = "settled" /\ build.outcome = "returned" /\ build.stream = "garbled")
        => /\ Len(build.calls) = 3
           /\ build.calls[1] = BuildCall("onLog", LogA, FALSE)
           /\ build.calls[2].cb = "onError"
           /\ build.calls[3] = BuildCall("onComplete", Boom, FALSE)

\* messages[i] and messages'[j] are the same message: it has kept its id, or
\* the step removed no message and it has kept its place
SameMessage(i, j) ==
    \/ messages[i].id = messages'[j].id
    \/ i = j /\ Len(messages') = Len(messages)

(***************************************************************************)
(* C27 - loading clears on the first data event: an assistant message to   *)
(* which a data event has been applied, with or without the thinking flag  *)
(* (it has content or thinking content), is not loading; and a message     *)
(* that is not loading is never loading again.                             *)
(***************************************************************************)
C27_LoadingClearsOnFirstData ==
    [][/\ \A j \in 1..Len(messages') :
             (messages'[j].content # <<>> \/ messages'[j].thinkingContent # <<>>)
                => ~messages'[j].loading
       /\ \A i \in 1..Len(messages), j \in 1..Len(messages') :
             (SameMessage(i, j) /\ ~messages[i].loading) => ~messages'[j].loading]_vars

\* the first data event of the stream carried the thinking flag and has been
\* applied to the message the start event named
C27_ThinkingCleared ==
    \E i \in 1..Len(messages) :
        /\ messages[i].id = IdOf(ServerMessageId(1))
        /\ messages[i].thinkingContent = ThinkT
        /\ messages[i].content = <<>>
        /\ ~messages[i].loading

\* this step is a read of the k-th send in which the decoder invokes onEnd
\* with message_id and nothing else, and after which the send reads on
EndApplied(k, message_id) ==
    /\ InFlight(k)
    /\ ops[k].pc = "read"
    /\ ops'[k].pc = "read"
    /\ ops'[k].calls = Append(ops[k].calls, Call("onEnd", message_id, FALSE))

\* msg once an end event naming message_id has finalised it
Finalized(msg, message_id) ==
    [msg EXCEPT !.id = IdOf(message_id), !.loading = FALSE, !.statusText = "none"]

(***************************************************************************)
(* C28 - when an end event of the k-th send is applied, the assistant      *)
(* message of that turn (its placeholder when no start event preceded, the *)
(* message the start event renamed otherwise) gets the end event's         *)
(* message_id as its id, loading = false and no statusText, and every      *)
(* other message of the list is left as it was.                            *)
(***************************************************************************)
C28_EndFinalisesOnlyItsMessage ==
    [][\A k \in 1..Len(ops) :
          EndApplied(k, ServerMessageId(k)) =>
             /\ Len(messages') = Len(messages)
             /\ \A i \in 1..Len(messages) :
                   messages'[i] = IF i \in AssistantOfTurn(messages, k)
                                  THEN Finalized(messages[i], ServerMessageId(k))
                                  ELSE messages[i]]_vars

(***************************************************************************)
(* C29 - no placeholder is left behind: in the state in which the k-th     *)
(* handleSendMessage settles, whatever path it settles by (the stream      *)
(* closing after its end event, or without an end event, an error event or *)
(* any data event), no assistant message of that turn is in the list with  *)
(* loading = true.                                                         *)
(***************************************************************************)
C29_NoLoadingMessageAfterSettle ==
    [][\A k \in 1..Len(ops) :
          Settles(k) => \A i \in AssistantOfTurn(messages', k) : ~messages'[i].loading]_vars

(***************************************************************************)
(* C30 - terminal success is absorbing: once the end event of the k-th     *)
(* send has been applied, no later step of that operation (the stream      *)
(* closing, a read error, an abort raised after the end event) removes or  *)
(* changes the assistant message the end event finalised.                  *)
(***************************************************************************)
C30_TerminalSuccessAbsorbing ==
    [][\A k \in 1..Len(ops) :
          (ops[k].pc = "read" /\ HasCall(k, "onEnd") /\ ops'[k] # ops[k]) =>
             \A i \in 1..Len(messages) :
                messages[i].id = IdOf(ServerMessageId(k))
                   => \E j \in 1..Len(messages') : messages'[j] = messages[i]]_vars

(***************************************************************************)
(* C31 - the finally block of handleSendMessage: in the state in which a   *)
(* send that passed the conversation check settles, by whatever path       *)
(* (stream closed, error event, thrown error, upload failure,              *)
(* cancellation), isLoading is false, the stored AbortController is null   *)
(* and currentMessageIdRef.current is null.                                *)
(***************************************************************************)
C31_SettledSendResetsState ==
    [][\A k \in 1..Len(ops) :
          Settles(k) => /\ isLoading' = FALSE
                        /\ abortController' = 0
                        /\ currentMessageIdRef' = NoId]_vars

\* sends have settled by an upload failure and by a cancellation, and the
\* component is idle
C31_SettledByUploadFailureAndCancel ==
    /\ \E k \in 1..Len(ops) : ops[k].pc = "settled" /\ ops[k].uploadFailed
    /\ \E k \in 1..Len(ops) : ops[k].pc = "settled" /\ ops[k].dueToAbort
    /\ \A k \in 1..Len(ops) : ops[k].pc = "settled"
    /\ ~isLoading
    /\ abortController = 0
    /\ currentMessageIdRef = NoId

\* run r is a startQuarkusDevServer call whose stream is being read and whose
\* AbortController has not been aborted
LiveDevStream(r) ==
    /\ r \in 1..Len(runs)
    /\ runs[r].kind = "dev"
    /\ runs[r].pc = "read"
    /\ r \notin devAborted

(***************************************************************************)
(* C32 - a live dev server can be stopped: whenever the stream that        *)
(* startQuarkusDevServer opened for message m is being read and has not    *)
(* been aborted, m is in devServerRunning and an AbortController is        *)
(* registered for m, so that the stop button is rendered for m and the     *)
(* start button is not, whatever starts, stops, pending stopService calls, *)
(* late ends of aborted streams and restarts came before.                  *)
(***************************************************************************)
C32_LiveDevServerIsRunning ==
    \A r \in 1..Len(runs) :
        LiveDevStream(r) => /\ runs[r].m \in devServerRunning
                            /\ devServerAbortControllersRef[runs[r].m] # 0
                            /\ ~canStartDev(runs[r].m)

(***************************************************************************)
(* C33 - the end of a dev-server stream cleans up: in the state in which   *)
(* a startQuarkusDevServer call for message m returns or throws, whatever  *)
(* ended its stream (a complete event, an error, an abort, the stream      *)
(* closing without a complete event), m is not in devServerRunning and no  *)
(* AbortController is registered for m.                                    *)
(***************************************************************************)
C33_DevStreamEndCleansUp ==
    [][\A r \in 1..Len(runs) :
          (RunSettlesNow(r) /\ runs[r].kind = "dev") =>
             /\ runs[r].m \notin devServerRunning'
             /\ devServerAbortControllersRef'[runs[r].m] = 0]_vars

\* run r is a handleWriteXml or handleBuildXml call that has not returned
WriteOrBuildInFlight(r) ==
    /\ r \in 1..Len(runs)
    /\ runs[r].kind \in {"write", "build"}
    /\ runs[r].pc # "settled"

(***************************************************************************)
(* C34 - one write or build per message: while a handleWriteXml or         *)
(* handleBuildXml call for message m is in flight, buildingMessageId is m  *)
(* (so m's write and build buttons are disabled), whatever writes or       *)
(* builds of other messages start or finish in the meantime, and no other  *)
(* write or build for m is in flight.                                      *)
(***************************************************************************)
C34_BuildingMessageIdCoversInFlight ==
    \A r \in 1..Len(runs) :
        WriteOrBuildInFlight(r) =>
            /\ isBuilding(runs[r].m)
            /\ \A q \in 1..Len(runs) :
                  (WriteOrBuildInFlight(q) /\ runs[q].m = runs[r].m) => q = r

(***************************************************************************)
(* C35 - a build that has ended is not shown as building: in the state in  *)
(* which a handleBuildXml call for message m returns or throws, also when  *)
(* its stream closed without a complete event, buildResults[m].success is  *)
(* true or false, not null.                                                *)
(***************************************************************************)
C35_SettledBuildHasVerdict ==
    [][\A r \in 1..Len(runs) :
          (RunSettlesNow(r) /\ runs[r].kind = "build") =>
             buildResults'[runs[r].m].success \in {"true", "false"}]_vars

\* this step is the one in which the k-th send's reader.read() resolves with
\* done and sendMessageStream returns
StreamCloses(k) ==
    /\ InFlight(k)
    /\ ops[k].pc = "read"
    /\ ops'[k].pc = "settled"
    /\ ops'[k].caught = "returned"

(***************************************************************************)
(* C36 - an event is dispatched only by its blank line: when the stream    *)
(* closes while the lines of an event are pending (the body that ends      *)
(* after the event and data lines of an end event naming another id, or    *)
(* the one that ends in the middle of a data line carrying "i"), the       *)
(* pending event has reached no callback (no onEnd, no onChunk("i")), the  *)
(* closing step invokes no callback (it changes neither the messages nor   *)
(* the error), and sendMessageStream returns normally with the last        *)
(* message id it saw: the id of the start event if that was dispatched,    *)
(* else the empty id.                                                      *)
(***************************************************************************)
C36_PendingEventNeverDispatched ==
    [][\A k \in 1..Len(ops) :
          (InFlight(k) /\ ops[k].pc = "read" /\ ops[k].stream \in {"pending", "unterminated"}
              /\ ops[k].pos = Len(StreamBody(ops[k].stream, k)) /\ ops'[k] # ops[k]) =>
             /\ StreamCloses(k)
             /\ ~HasCall(k, "onEnd")
             /\ \A i \in 1..Len(ops[k].calls) : ops[k].calls[i].arg # ContentI
             /\ messages' = messages
             /\ error' = error
             /\ ops[k].messageId = IF HasCall(k, "onStart") THEN ServerMessageId(k) ELSE <<>>]_vars

\* a send has returned normally and its message holds the content of the
\* one data event that was complete when the stream closed
C36_ClosedWithEventPending ==
    /\ ops[1].pc = "settled"
    /\ ops[1].caught = "returned"
    /\ chunking = "events"
    /\ \E i \in 1..Len(messages) :
          /\ messages[i].id = IdOf(ServerMessageId(1))
          /\ messages[i].content = ContentH

(***************************************************************************)
(* Session initialisation with the conversationId prop: the component is   *)
(* constructed with or without it, and the effect fires after the first    *)
(* render, a second time under StrictMode, and whenever the prop changes.  *)
(***************************************************************************)
\* err.message of the error getConversation throws
MsgLoadFailed == <<"l", "o", "a", "d">>

\* the messages of a loaded conversation, as setMessages stores them
LoadedMessages ==
    <<[id |-> [kind |-> "loaded", n |-> 1, s |-> <<>>], role |-> "user",
       content |-> UserContent, thinkingContent |-> <<>>, loading |-> FALSE,
       statusText |-> "none"]>>

\* an effect without the isInitializedRef guard
initConversationEveryTime(prop) ==
    /\ prop \in {"undefined", "set"}
    /\ ~isInitializedRef => prop = conversationId
    /\ creating = "none"
    /\ isInitializedRef' = TRUE
    /\ isInitializing' = TRUE
    /\ creating' = IF prop = "set" THEN "load" ELSE "init"
    /\ UNCHANGED <<conversationId, messages, isLoading, error, abortController,
                   currentMessageIdRef, aborted, ops, chunking, poll, build, ifaceVars>>

\* the effect fires while the conversationId prop is prop (on its first run
\* the prop is the one useState(propConversationId) was given), up to the
\* await of initConversation
initConversation(prop) ==
    /\ prop \in {"undefined", "set"}
    /\ ~isInitializedRef => prop = conversationId
    /\ IF isInitializedRef
       THEN UNCHANGED <<isInitializedRef, creating, isInitializing>>
       ELSE /\ isInitializedRef' = TRUE
            /\ isInitializing' = TRUE
            /\ creating' = IF prop = "set" THEN "load" ELSE "init"
    /\ UNCHANGED <<conversationId, messages, isLoading, error, abortController,
                   currentMessageIdRef, aborted, ops, chunking, poll, build, ifaceVars>>

\* await chatApi.getConversation(propConversationId) settles
GetConversationDone(ok) ==
    /\ creating = "load"
    /\ IF ok
       THEN /\ messages' = LoadedMessages
            /\ error' = error
       ELSE /\ error' = Some(MsgLoadFailed)
            /\ UNCHANGED messages
    /\ isInitializing' = FALSE
    /\ creating' = "none"
    /\ UNCHANGED <<conversationId, isLoading, abortController, currentMessageIdRef,
                   isInitializedRef, aborted, ops, chunking, poll, build, ifaceVars>>

InitSession ==
    /\ conversationId \in {"undefined", "set"}
    /\ messages = <<>>
    /\ isLoading = FALSE
    /\ error = Null
    /\ isInitializing = TRUE
    /\ abortController = 0
    /\ currentMessageIdRef = NoId
    /\ isInitializedRef = FALSE
    /\ aborted = {}
    /\ ops = <<>>
    /\ creating = "none"
    /\ chunking = "events"
    /\ poll = NoPoll
    /\ build = NoBuild
    /\ IfaceIdle

NextSession ==
    \/ \E prop \in {"undefined", "set"} : initConversation(prop)
    \/ \E ok \in BOOLEAN : CreateDone(ok)
    \/ \E ok \in BOOLEAN : GetConversationDone(ok)
    \/ handleReset
    \/ handleSendMessage(0)
    \/ \E k \in 1..MaxOps, outcome \in FetchOutcomes : FetchFails(k, outcome)
    \/ \E k \in 1..MaxOps, name \in StreamNames : FetchStreams(k, name)
    \/ \E k \in 1..MaxOps : ReadChunk(k)
    \/ \E k \in 1..MaxOps : ReadEnd(k)

SpecSession == InitSession /\ [][NextSession]_vars

(***************************************************************************)
(* C37 - the session is initialised at most once per ChatContainer: a      *)
(* createConversation or getConversation request of the effect is issued   *)
(* only in a step that finds isInitializedRef.current false and sets it,   *)
(* and isInitializedRef.current never goes back to false; so however often *)
(* the effect fires (twice on mount, again when the prop changes) it       *)
(* issues at most one request in total.                                    *)
(***************************************************************************)
C37_InitialisedAtMostOnce ==
    [][/\ (creating' \in {"init", "load"} /\ creating' # creating)
             => (~isInitializedRef /\ isInitializedRef')
       /\ isInitializedRef => isInitializedRef']_vars

\* the one request of the effect was a getConversation, it has succeeded
\* and the loaded conversation is shown
C37_ConversationLoadedOnce ==
    /\ isInitializedRef
    /\ ~isInitializing
    /\ creating = "none"
    /\ messages = LoadedMessages

(***************************************************************************)
(* C38 - stopping always clears the running mark: the step in which a      *)
(* stopQuarkusDevServer call for message m settles removes m from          *)
(* devServerRunning whether stopService succeeded or failed; no step of    *)
(* the call changes the result of another message; and buildResults[m]     *)
(* is changed only when stopService succeeded and a result for m existed   *)
(* (it then has success = true and phase 'build').                         *)
(***************************************************************************)
C38_StopAlwaysClearsRunning ==
    [][/\ \A m \in Messages : StartsRun("stop", m) => buildResults' = buildResults
       /\ \A r \in 1..Len(runs) :
             (RunSettlesNow(r) /\ runs[r].kind = "stop") =>
                LET m == runs[r].m IN
                /\ m \notin devServerRunning'
                /\ \A n \in Messages \ {m} : buildResults'[n] = buildResults[n]
                /\ buildResults'[m] =
                      IF runs'[r].outcome = "returned" /\ buildResults[m].present
                      THEN [buildResults[m] EXCEPT !.success = "true", !.phase = "build"]
                      ELSE buildResults[m]]_vars

\* a stop whose stopService call failed has settled: its message is not
\* running and still shows the result startQuarkusDevServer stored
C38_FailedStopClearedRunning ==
    \E r \in 1..Len(runs) :
        /\ runs[r].kind = "stop"
        /\ runs[r].pc = "settled"
        /\ runs[r].outcome = "Error"
        /\ runs[r].m \notin devServerRunning
        /\ buildResults[runs[r].m] = Result("null", "dev")

====
